---- MODULE Spec2Model ----
(***************************************************************************)
(* Model of the RapidTools validation API worker: the fetch handler of     *)
(* backend/src/index.ts, the idempotency middleware                        *)
(* (middleware/idempotency.ts, of which the repository holds two builds:   *)
(* the list-by-prefix build and the stored-fingerprint build), the         *)
(* canonical serializer (utils/stable-stringify.ts) and the GA4 CSV        *)
(* validator (validators/csv-ga4.ts).                                      *)
(*                                                                         *)
(* A JavaScript string is a sequence of one-character strings.  A digest   *)
(* (64 hex digits) is a sequence holding one opaque element, so it never   *)
(* contains the ':' separator and two digests are equal exactly when their *)
(* inputs are.  The KV namespace is modelled with atomic get, put and list *)
(* that observe every earlier put (no replication lag).                    *)
(***************************************************************************)
EXTENDS Integers, Sequences, FiniteSets, TLC

VARIABLES
  variant,  \* which build of middleware/idempotency.ts the worker imports
  env,      \* the worker's bindings other than the KV namespace
  now,      \* wall clock, in seconds since the worker was deployed
  kv,       \* env.IDEMPOTENCY_KV: key -> [value, expiresAt]
  reqs      \* the requests received so far, each with its position in fetch

vars == <<variant, env, now, kv, reqs>>

----------------------------------------------------------------------------
(* Bounds of the model *)

\* Requests the worker receives in one run.
MaxRequests == 2

\* Clock ticks in one run.
MaxTicks == 2

\* Requests the worker receives in one run under a single token.
MaxRaceRequests == 3

----------------------------------------------------------------------------
(* Strings *)

\* String.prototype.startsWith
StartsWith(s, p) ==
  /\ Len(p) <= Len(s)
  /\ SubSeq(s, 1, Len(p)) = p

RECURSIVE Concat(_)
\* Array.prototype.join('') of a sequence of strings
Concat(ss) ==
  IF ss = <<>> THEN <<>> ELSE Head(ss) \o Concat(Tail(ss))

RECURSIVE JoinWith(_, _)
\* Array.prototype.join(sep)
JoinWith(ss, sep) ==
  IF ss = <<>> THEN <<>>
  ELSE IF Len(ss) = 1 THEN Head(ss)
  ELSE Head(ss) \o sep \o JoinWith(Tail(ss), sep)

Digits == <<"0", "1", "2", "3", "4", "5", "6", "7", "8", "9">>

IsDigit(c) == \E i \in 1..10 : Digits[i] = c

DigitVal(c) == (CHOOSE i \in 1..10 : Digits[i] = c) - 1

RECURSIVE NatToStr(_)
\* Number.prototype.toString() of a non-negative integer
NatToStr(n) ==
  IF n < 10 THEN <<Digits[n + 1]>>
  ELSE NatToStr(n \div 10) \o <<Digits[(n % 10) + 1]>>

RECURSIVE StrToNat(_)
\* parseInt(s, 10) of a string of digits
StrToNat(s) ==
  IF s = <<>> THEN 0
  ELSE 10 * StrToNat(SubSeq(s, 1, Len(s) - 1)) + DigitVal(s[Len(s)])

\* The ASCII characters by code, 0..127 (a character the module cannot write in a
\* string, such as a control character, is written xHH).
Ascii ==
  <<"x00", "x01", "x02", "x03", "x04", "x05", "x06", "x07", "x08", "\t",
    "\n", "x0B", "\f", "\r", "x0E", "x0F", "x10", "x11", "x12", "x13",
    "x14", "x15", "x16", "x17", "x18", "x19", "x1A", "x1B", "x1C", "x1D",
    "x1E", "x1F", " ", "!", "\"", "#", "$", "%", "&", "'", "(", ")", "*",
    "+", ",", "-", ".", "/", "0", "1", "2", "3", "4", "5", "6", "7", "8",
    "9", ":", ";", "<", "=", ">", "?", "@", "A", "B", "C", "D", "E", "F",
    "G", "H", "I", "J", "K", "L", "M", "N", "O", "P", "Q", "R", "S", "T",
    "U", "V", "W", "X", "Y", "Z", "[", "\\", "]", "^", "_", "x60", "a", "b",
    "c", "d", "e", "f", "g", "h", "i", "j", "k", "l", "m", "n", "o", "p",
    "q", "r", "s", "t", "u", "v", "w", "x", "y", "z", "{", "|", "}", "~",
    "x7F">>

\* String.prototype.charCodeAt of a one-character ASCII string
CharCode(c) == (CHOOSE i \in 1..128 : Ascii[i] = c) - 1

RECURSIVE StrLess(_, _)
\* a < b for two strings: the default comparison of Array.prototype.sort
StrLess(a, b) ==
  IF b = <<>> THEN FALSE
  ELSE IF a = <<>> THEN TRUE
  ELSE IF Head(a) = Head(b) THEN StrLess(Tail(a), Tail(b))
  ELSE CharCode(Head(a)) < CharCode(Head(b))

RECURSIVE InsertSorted(_, _)
InsertSorted(x, sorted) ==
  IF sorted = <<>> THEN <<x>>
  ELSE IF StrLess(x, Head(sorted)) THEN <<x>> \o sorted
  ELSE <<Head(sorted)>> \o InsertSorted(x, Tail(sorted))

RECURSIVE SortStrings(_)
\* Array.prototype.sort() of an array of strings (stable)
SortStrings(ss) ==
  IF ss = <<>> THEN <<>>
  ELSE InsertSorted(ss[Len(ss)], SortStrings(SubSeq(ss, 1, Len(ss) - 1)))

----------------------------------------------------------------------------
(* utils/crypto.ts *)

\* sha256: a collision-free digest, one opaque element standing for its 64
\* hex digits.
sha256(s) == << "sha256(" \o ToString(s) \o ")" >>

----------------------------------------------------------------------------
(* JSON values, as request.json() yields them *)

Undefined == [t |-> "undefined"]
Null == [t |-> "null"]
Bool(b) == [t |-> "bool", b |-> b]
Num(n) == [t |-> "num", n |-> n]
Str(s) == [t |-> "str", s |-> s]
Arr(items) == [t |-> "arr", items |-> items]
\* An object: its own keys in insertion order, each with its value.
Obj(kvs) == [t |-> "obj", kvs |-> kvs]

\* The values JavaScript's !v and v || d treat as false.
Falsy(v) ==
  \/ v.t \in {"undefined", "null"}
  \/ v.t = "bool" /\ ~v.b
  \/ v.t = "num" /\ v.n = 0
  \/ v.t = "str" /\ v.s = <<>>

\* obj[key], undefined when obj has no such key (or is undefined: options
\* defaults to {} in validateGA4CSV).
Prop(obj, key) ==
  IF obj.t = "obj" /\ \E i \in 1..Len(obj.kvs) : obj.kvs[i][1] = key
  THEN obj.kvs[CHOOSE i \in 1..Len(obj.kvs) : obj.kvs[i][1] = key][2]
  ELSE Undefined

RECURSIVE EscapeChars(_)
EscapeChars(s) ==
  IF s = <<>> THEN <<>>
  ELSE (CASE Head(s) = "\"" -> <<"\\", "\"">>
          [] Head(s) = "\\" -> <<"\\", "\\">>
          [] Head(s) = "\n" -> <<"\\", "n">>
          [] OTHER -> <<Head(s)>>) \o EscapeChars(Tail(s))

\* JSON.stringify of a string
JsonQuote(s) == <<"\"">> \o EscapeChars(s) \o <<"\"">>

\* JSON.stringify of a boolean, a number or a string
JsonStringifyScalar(v) ==
  CASE v.t = "bool" -> IF v.b THEN <<"t", "r", "u", "e">>
                       ELSE <<"f", "a", "l", "s", "e">>
    [] v.t = "num" -> NatToStr(v.n)
    [] v.t = "str" -> JsonQuote(v.s)

----------------------------------------------------------------------------
(* utils/stable-stringify.ts *)

RECURSIVE stableStringifyUnsorted(_)
\* A rendering that keeps the keys of an object in insertion order
stableStringifyUnsorted(obj) ==
  CASE obj.t = "null" -> <<"n", "u", "l", "l">>
    [] obj.t = "undefined" -> <<"u", "n", "d", "e", "f", "i", "n", "e", "d">>
    [] obj.t \in {"bool", "num", "str"} -> JsonStringifyScalar(obj)
    [] obj.t = "arr" ->
         <<"[">> \o
         JoinWith([i \in 1..Len(obj.items) |->
                     stableStringifyUnsorted(obj.items[i])], <<",">>) \o
         <<"]">>
    [] obj.t = "obj" ->
         <<"{">> \o
         JoinWith([i \in 1..Len(obj.kvs) |->
                     JsonQuote(obj.kvs[i][1]) \o <<":">> \o
                     stableStringifyUnsorted(obj.kvs[i][2])], <<",">>) \o
         <<"}">>

RECURSIVE stableStringify(_)
stableStringify(obj) ==
  CASE obj.t = "null" -> <<"n", "u", "l", "l">>
    [] obj.t = "undefined" -> <<"u", "n", "d", "e", "f", "i", "n", "e", "d">>
    [] obj.t \in {"bool", "num", "str"} -> JsonStringifyScalar(obj)
    [] obj.t = "arr" ->
         <<"[">> \o
         JoinWith([i \in 1..Len(obj.items) |-> stableStringify(obj.items[i])],
                  <<",">>) \o
         <<"]">>
    [] obj.t = "obj" ->
         LET keys == SortStrings([i \in 1..Len(obj.kvs) |-> obj.kvs[i][1]])
             pairs == [i \in 1..Len(keys) |->
                         JsonQuote(keys[i]) \o <<":">> \o
                         stableStringify(Prop(obj, keys[i]))]
         IN <<"{">> \o JoinWith(pairs, <<",">>) \o <<"}">>

----------------------------------------------------------------------------
(* middleware/idempotency.ts: computeFingerprint *)

\* An absent value left as it is
OrEmptyObjectKept(v) == v

\* v || {}
OrEmptyObject(v) == IF Falsy(v) THEN Obj(<<>>) ELSE v

\* A fingerprint that leaves the context out
computeFingerprintNoContext(request) ==
  LET contentHash == sha256(request.content.s)
      optionsStr == stableStringify(OrEmptyObject(request.options))
      composite == request.type.s \o contentHash \o optionsStr
  IN sha256(composite)

computeFingerprint(request) ==
  LET contentHash == sha256(request.content.s)
      optionsStr == stableStringify(OrEmptyObject(request.options))
      contextStr == stableStringify(OrEmptyObject(request.context))
      composite == request.type.s \o contentHash \o optionsStr \o contextStr
  IN sha256(composite)

----------------------------------------------------------------------------
(* validators/csv-ga4.ts *)

DEFAULT_MAX_ROWS == 100000

WhiteSpace == {" ", "\t", "\n", "\r", "\f"}

RECURSIVE TrimStart(_)
TrimStart(s) ==
  IF s # <<>> /\ Head(s) \in WhiteSpace THEN TrimStart(Tail(s)) ELSE s

RECURSIVE TrimEnd(_)
TrimEnd(s) ==
  IF s # <<>> /\ s[Len(s)] \in WhiteSpace
  THEN TrimEnd(SubSeq(s, 1, Len(s) - 1)) ELSE s

\* String.prototype.trim
Trim(s) == TrimEnd(TrimStart(s))

RECURSIVE SplitAcc(_, _, _, _)
SplitAcc(s, sep, cur, parts) ==
  IF s = <<>> THEN Append(parts, cur)
  ELSE IF Head(s) = sep THEN SplitAcc(Tail(s), sep, <<>>, Append(parts, cur))
  ELSE SplitAcc(Tail(s), sep, Append(cur, Head(s)), parts)

\* String.prototype.split(sep) for a one-character separator: the empty
\* string splits into one empty part.
Split(s, sep) == SplitAcc(s, sep, <<>>, <<>>)

Base64Alphabet ==
  <<"A", "B", "C", "D", "E", "F", "G", "H", "I", "J", "K", "L", "M", "N",
    "O", "P", "Q", "R", "S", "T", "U", "V", "W", "X", "Y", "Z", "a", "b",
    "c", "d", "e", "f", "g", "h", "i", "j", "k", "l", "m", "n", "o", "p",
    "q", "r", "s", "t", "u", "v", "w", "x", "y", "z", "0", "1", "2", "3",
    "4", "5", "6", "7", "8", "9", "+", "/">>

IsBase64Char(c) == \E i \in 1..64 : Base64Alphabet[i] = c

Base64Val(c) == (CHOOSE i \in 1..64 : Base64Alphabet[i] = c) - 1

RECURSIVE RemoveWhiteSpace(_)
RemoveWhiteSpace(s) ==
  IF s = <<>> THEN <<>>
  ELSE IF Head(s) \in WhiteSpace THEN RemoveWhiteSpace(Tail(s))
  ELSE <<Head(s)>> \o RemoveWhiteSpace(Tail(s))

\* The padding step of atob: with a length divisible by 4, one or two
\* trailing '=' are removed.
StripPadding(s) ==
  IF Len(s) % 4 # 0 \/ s = <<>> THEN s
  ELSE IF s[Len(s)] = "=" /\ s[Len(s) - 1] = "="
  THEN SubSeq(s, 1, Len(s) - 2)
  ELSE IF s[Len(s)] = "=" THEN SubSeq(s, 1, Len(s) - 1)
  ELSE s

RECURSIVE Base64Bytes(_)
\* The bytes of a string of base64 characters whose length is not 1 mod 4:
\* 4 characters give 3 bytes, a rest of 3 gives 2 and a rest of 2 gives 1.
Base64Bytes(s) ==
  IF Len(s) < 2 THEN <<>>
  ELSE LET a == Base64Val(s[1])
           b == Base64Val(s[2])
           b1 == a * 4 + (b \div 16)
       IN IF Len(s) = 2 THEN <<b1>>
          ELSE LET c == Base64Val(s[3])
                   b2 == (b % 16) * 16 + (c \div 4)
               IN IF Len(s) = 3 THEN <<b1, b2>>
                  ELSE LET d == Base64Val(s[4])
                           b3 == (c % 4) * 64 + d
                       IN <<b1, b2, b3>> \o
                          Base64Bytes(SubSeq(s, 5, Len(s)))

\* atob: the byte string, or threw (InvalidCharacterError) when the data is
\* not base64.
atob(data) ==
  LET s == StripPadding(RemoveWhiteSpace(data))
  IN IF Len(s) % 4 = 1 \/ \E i \in 1..Len(s) : ~IsBase64Char(s[i])
     THEN [threw |-> TRUE, bytes |-> <<>>]
     ELSE [threw |-> FALSE, bytes |-> Base64Bytes(s)]

\* TextDecoder().decode: an ASCII byte is its character; a byte above 127
\* is rendered as the replacement character (exact for malformed UTF-8, one
\* replacement per byte for a well-formed multi-byte character).
TextDecode(bytes) ==
  [i \in 1..Len(bytes) |->
     IF bytes[i] < 128 THEN Ascii[bytes[i] + 1] ELSE "U+FFFD"]

sBase64 == <<"b", "a", "s", "e", "6", "4", ":">>
sText == <<"t", "e", "x", "t", ":">>

\* A decoding that takes content without a prefix for plain text
decodeContentLenient(content) ==
  IF StartsWith(content, sBase64)
  THEN LET bin == atob(SubSeq(content, 8, Len(content)))
       IN [threw |-> bin.threw, text |-> TextDecode(bin.bytes)]
  ELSE IF StartsWith(content, sText)
  THEN [threw |-> FALSE, text |-> SubSeq(content, 6, Len(content))]
  ELSE [threw |-> FALSE, text |-> content]

\* decodeContent: the decoded text, or threw when the prefix is neither
\* "base64:" nor "text:" or atob rejects the data.
decodeContent(content) ==
  IF StartsWith(content, sBase64)
  THEN LET bin == atob(SubSeq(content, 8, Len(content)))
       IN [threw |-> bin.threw, text |-> TextDecode(bin.bytes)]
  ELSE IF StartsWith(content, sText)
  THEN [threw |-> FALSE, text |-> SubSeq(content, 6, Len(content))]
  ELSE [threw |-> TRUE, text |-> <<>>]

parseCSV(csvText) ==
  LET lines == Split(Trim(csvText), "\n")
  IN [i \in 1..Len(lines) |->
        LET cells == Split(lines[i], ",")
        IN [j \in 1..Len(cells) |-> Trim(cells[j])]]

\* /^\d{4}-\d{2}-\d{2}$/
MatchesDateRegex(s) ==
  /\ Len(s) = 10
  /\ \A i \in {1, 2, 3, 4, 6, 7, 9, 10} : IsDigit(s[i])
  /\ s[5] = "-"
  /\ s[8] = "-"

IsLeapYear(y) == (y % 4 = 0 /\ y % 100 # 0) \/ y % 400 = 0

DaysInMonth(y, m) ==
  IF m = 2 THEN (IF IsLeapYear(y) THEN 29 ELSE 28)
  ELSE IF m \in {4, 6, 9, 11} THEN 30 ELSE 31

\* isValidDate(dateStr), for a cell (a string, or undefined when the row is
\* shorter than the column index).  "ok" is the boolean returned; "threw"
\* when new Date(dateStr) is an Invalid Date (month outside 01..12 or day
\* outside 01..31), on which toISOString() throws a RangeError.  A day
\* within 01..31 that the month does not have rolls over into the next
\* month, so the ISO string no longer starts with dateStr.
isValidDate(cell) ==
  IF cell.t # "str" \/ ~MatchesDateRegex(cell.s)
  THEN [threw |-> FALSE, ok |-> FALSE]
  ELSE LET y == StrToNat(SubSeq(cell.s, 1, 4))
           m == StrToNat(SubSeq(cell.s, 6, 7))
           d == StrToNat(SubSeq(cell.s, 9, 10))
       IN IF m < 1 \/ m > 12 \/ d < 1 \/ d > 31
          THEN [threw |-> TRUE, ok |-> FALSE]
          ELSE [threw |-> FALSE, ok |-> d <= DaysInMonth(y, m)]

\* isNonNegativeInteger(value): /^\d+$/, and parseInt(value).toString()
\* gives the value back (no leading zeros).
isNonNegativeInteger(cell) ==
  /\ cell.t = "str"
  /\ cell.s # <<>>
  /\ \A i \in 1..Len(cell.s) : IsDigit(cell.s[i])
  /\ NatToStr(StrToNat(cell.s)) = cell.s

\* Array.prototype.indexOf, 0-based; -1 when absent
IndexOf(arr, x) ==
  IF \E i \in 1..Len(arr) : arr[i] = x
  THEN (CHOOSE i \in 1..Len(arr) :
          arr[i] = x /\ \A j \in 1..(i - 1) : arr[j] # x) - 1
  ELSE -1

Includes(arr, x) == \E i \in 1..Len(arr) : arr[i] = x

\* row[idx]: undefined past the end of the row (and for idx = -1)
CellAt(row, idx) ==
  IF idx >= 0 /\ idx < Len(row) THEN Str(row[idx + 1]) ELSE Undefined

RECURSIVE FilterSeq(_, _)
\* Array.prototype.filter for membership in a set
FilterSeq(arr, keep) ==
  IF arr = <<>> THEN <<>>
  ELSE IF Head(arr) \in keep THEN <<Head(arr)>> \o FilterSeq(Tail(arr), keep)
  ELSE FilterSeq(Tail(arr), keep)

sDate == <<"d", "a", "t", "e">>
sSessions == <<"s", "e", "s", "s", "i", "o", "n", "s">>
sUsers == <<"u", "s", "e", "r", "s">>
sPageviews == <<"p", "a", "g", "e", "v", "i", "e", "w", "s">>

requiredHeaders == <<sDate, sSessions, sUsers>>

NoPointer == [none |-> TRUE]

\* A finding; its message is fixed text around the values of the pointer.
Finding(level, code, pointer) ==
  [level |-> level, code |-> code, pointer |-> pointer]

CountLevel(findings, level) ==
  Cardinality({i \in 1..Len(findings) : findings[i].level = level})

buildErrorResponse(findings, rowCount) ==
  [ok |-> TRUE,
   summary |-> [valid |-> FALSE,
                issues |-> CountLevel(findings, "error"),
                warnings |-> CountLevel(findings, "warning"),
                rows |-> rowCount],
   findings |-> findings,
   normalized |-> [detectedHeaders |-> <<>>, dateRange |-> Undefined]]

sAllowPageviewsMissing ==
  <<"a", "l", "l", "o", "w", "P", "a", "g", "e", "v", "i", "e", "w", "s",
    "M", "i", "s", "s", "i", "n", "g">>

sRequireSortedByDateAsc ==
  <<"r", "e", "q", "u", "i", "r", "e", "S", "o", "r", "t", "e", "d", "B",
    "y", "D", "a", "t", "e", "A", "s", "c">>

sAllowDuplicateDates ==
  <<"a", "l", "l", "o", "w", "D", "u", "p", "l", "i", "c", "a", "t", "e",
    "D", "a", "t", "e", "s">>

sMaxRows ==
  <<"m", "a", "x", "R", "o", "w", "s">>

\* options.maxRows ?? DEFAULT_MAX_ROWS
MaxRowsOf(options) ==
  LET v == Prop(options, sMaxRows)
  IN IF v.t \in {"undefined", "null"} THEN DEFAULT_MAX_ROWS ELSE v.n

\* The findings of one data row with enough columns, in the order the
\* callback pushes them: date (format, else duplicate), sessions, users,
\* pageviews.
RowFindings(seen, rowIndex, date, dateOk, sessions, users, pvIdx, pv, options) ==
  (IF ~dateOk
   THEN <<Finding("error", "INVALID_DATE_FORMAT",
                  [row |-> rowIndex, value |-> date])>>
   ELSE IF date.s \in seen /\ Falsy(Prop(options, sAllowDuplicateDates))
   THEN <<Finding("error", "DUPLICATE_DATE",
                  [row |-> rowIndex, date |-> date])>>
   ELSE <<>>)
  \o
  (IF ~isNonNegativeInteger(sessions)
   THEN <<Finding("error", "INVALID_SESSIONS_VALUE",
                  [row |-> rowIndex, value |-> sessions])>>
   ELSE <<>>)
  \o
  (IF ~isNonNegativeInteger(users)
   THEN <<Finding("error", "INVALID_USERS_VALUE",
                  [row |-> rowIndex, value |-> users])>>
   ELSE <<>>)
  \o
  (IF /\ pvIdx >= 0
      /\ pv # Undefined
      /\ pv # Str(<<>>)
      /\ ~isNonNegativeInteger(pv)
   THEN <<Finding("error", "INVALID_PAGEVIEWS_VALUE",
                  [row |-> rowIndex, value |-> pv])>>
   ELSE <<>>)

\* A callback that does not record the dates it has seen
RowCheckedNoMemory(acc, row, rowIndex, headers, options, date, dateValid) ==
  IF dateValid.threw THEN [acc EXCEPT !.threw = TRUE]
  ELSE [threw |-> FALSE,
        findings |->
          acc.findings \o
          RowFindings(acc.seenDates, rowIndex, date, dateValid.ok,
                      CellAt(row, IndexOf(headers, sSessions)),
                      CellAt(row, IndexOf(headers, sUsers)),
                      IndexOf(headers, sPageviews),
                      CellAt(row, IndexOf(headers, sPageviews)), options),
        dates |-> IF dateValid.ok THEN Append(acc.dates, date.s)
                  ELSE acc.dates,
        seenDates |-> acc.seenDates]

\* The callback on a row with enough columns, given its date cell and what
\* isValidDate made of it.
RowChecked(acc, row, rowIndex, headers, options, date, dateValid) ==
  IF dateValid.threw THEN [acc EXCEPT !.threw = TRUE]
  ELSE [threw |-> FALSE,
        findings |->
          acc.findings \o
          RowFindings(acc.seenDates, rowIndex, date, dateValid.ok,
                      CellAt(row, IndexOf(headers, sSessions)),
                      CellAt(row, IndexOf(headers, sUsers)),
                      IndexOf(headers, sPageviews),
                      CellAt(row, IndexOf(headers, sPageviews)), options),
        dates |-> IF dateValid.ok THEN Append(acc.dates, date.s)
                  ELSE acc.dates,
        seenDates |-> IF dateValid.ok THEN acc.seenDates \cup {date.s}
                      ELSE acc.seenDates]

\* Date cell of a row and its validity, handed to RowChecked
RowWithDate(acc, row, rowIndex, headers, options, date) ==
  RowChecked(acc, row, rowIndex, headers, options, date, isValidDate(date))

\* A callback that reports a row with too few columns and goes on to
\* check its cells
ValidateRowNoReturn(acc, row, rowIndex, headers, options) ==
  IF acc.threw THEN acc
  ELSE IF Len(row) < Len(requiredHeaders)
  THEN RowWithDate([acc EXCEPT !.findings =
                      Append(@, Finding("error", "INVALID_ROW_FORMAT",
                                        [row |-> rowIndex]))],
                   row, rowIndex, headers, options,
                   CellAt(row, IndexOf(headers, sDate)))
  ELSE RowWithDate(acc, row, rowIndex, headers, options,
                   CellAt(row, IndexOf(headers, sDate)))

\* One pass of the dataRows.forEach callback.  acc holds the findings, the
\* dates array, the seenDates set and whether an earlier row threw.
ValidateRow(acc, row, rowIndex, headers, options) ==
  IF acc.threw THEN acc
  ELSE IF Len(row) < Len(requiredHeaders)
  THEN [acc EXCEPT !.findings =
          Append(@, Finding("error", "INVALID_ROW_FORMAT",
                            [row |-> rowIndex]))]
  ELSE RowWithDate(acc, row, rowIndex, headers, options,
                   CellAt(row, IndexOf(headers, sDate)))

RECURSIVE ValidateRows(_, _, _, _, _)
\* dataRows.forEach: rows from position idx (0-based) on
ValidateRows(acc, dataRows, idx, headers, options) ==
  IF idx >= Len(dataRows) THEN acc
  ELSE ValidateRows(ValidateRow(acc, dataRows[idx + 1], idx + 2, headers,
                                options),
                    dataRows, idx + 1, headers, options)

\* requiredHeaders.filter(h => !headers.includes(h))
MissingHeaders(headers) ==
  FilterSeq(requiredHeaders,
            {h \in {sDate, sSessions, sUsers} : ~Includes(headers, h)})

\* The MISSING_OPTIONAL_HEADER warning, when it is due
OptionalHeaderFindings(headers, options) ==
  IF ~Includes(headers, sPageviews)
     /\ Falsy(Prop(options, sAllowPageviewsMissing))
  THEN <<Finding("warning", "MISSING_OPTIONAL_HEADER", NoPointer)>>
  ELSE <<>>

\* An order check that takes a date equal to the one before it for a
\* date out of order
SortFindingsStrict(dates, options) ==
  IF /\ ~Falsy(Prop(options, sRequireSortedByDateAsc))
     /\ Len(dates) > 0
     /\ \/ dates # SortStrings(dates)
        \/ \E n \in 1..(Len(dates) - 1) : dates[n] = dates[n + 1]
  THEN <<Finding("error", "NOT_SORTED_BY_DATE", NoPointer)>>
  ELSE <<>>

\* The NOT_SORTED_BY_DATE error, when it is due
SortFindings(dates, options) ==
  IF /\ ~Falsy(Prop(options, sRequireSortedByDateAsc))
     /\ Len(dates) > 0
     /\ dates # SortStrings(dates)
  THEN <<Finding("error", "NOT_SORTED_BY_DATE", NoPointer)>>
  ELSE <<>>

\* A response that is valid only when there is no finding at all
BuildResponseStrict(headers, rowCount, findings, dates) ==
  [ok |-> TRUE,
   summary |-> [valid |-> findings = <<>>,
                issues |-> CountLevel(findings, "error"),
                warnings |-> CountLevel(findings, "warning"),
                rows |-> rowCount],
   findings |-> findings,
   normalized |->
     [detectedHeaders |-> headers,
      dateRange |-> IF Len(dates) > 0
                    THEN [start |-> dates[1], end |-> dates[Len(dates)]]
                    ELSE Undefined]]

\* A response that lists the errors before the warnings
BuildResponseErrorsFirst(headers, rowCount, findings, dates) ==
  [ok |-> TRUE,
   summary |-> [valid |-> CountLevel(findings, "error") = 0,
                issues |-> CountLevel(findings, "error"),
                warnings |-> CountLevel(findings, "warning"),
                rows |-> rowCount],
   findings |->
     FilterSeq(findings, {findings[n] : n \in {m \in 1..Len(findings) :
                                                findings[m].level = "error"}})
     \o
     FilterSeq(findings, {findings[n] : n \in {m \in 1..Len(findings) :
                                                findings[m].level # "error"}}),
   normalized |->
     [detectedHeaders |-> headers,
      dateRange |-> IF Len(dates) > 0
                    THEN [start |-> dates[1], end |-> dates[Len(dates)]]
                    ELSE Undefined]]

\* The response built once every row has been checked
BuildResponse(headers, rowCount, findings, dates) ==
  [ok |-> TRUE,
   summary |-> [valid |-> CountLevel(findings, "error") = 0,
                issues |-> CountLevel(findings, "error"),
                warnings |-> CountLevel(findings, "warning"),
                rows |-> rowCount],
   findings |-> findings,
   normalized |->
     [detectedHeaders |-> headers,
      dateRange |-> IF Len(dates) > 0
                    THEN [start |-> dates[1], end |-> dates[Len(dates)]]
                    ELSE Undefined]]

\* validateGA4CSV after the row loop
AfterRows(headers, rowCount, acc, options) ==
  IF acc.threw THEN [threw |-> TRUE]
  ELSE [threw |-> FALSE,
        result |-> BuildResponse(headers, rowCount,
                                 acc.findings
                                   \o SortFindings(acc.dates, options),
                                 acc.dates)]

\* A row limit that a content with exactly maxRows data rows exceeds
ValidateParsedInclusive(headers, dataRows, options) ==
  IF Len(MissingHeaders(headers)) > 0
  THEN [threw |-> FALSE,
        result |-> buildErrorResponse(
          <<Finding("error", "MISSING_REQUIRED_HEADERS",
                    [missing |-> MissingHeaders(headers)])>>, 0)]
  ELSE IF Len(dataRows) >= MaxRowsOf(options)
  THEN [threw |-> FALSE,
        result |-> buildErrorResponse(
          Append(OptionalHeaderFindings(headers, options),
                 Finding("error", "MAX_ROWS_EXCEEDED",
                         [maxRows |-> MaxRowsOf(options),
                          actualRows |-> Len(dataRows)])),
          Len(dataRows))]
  ELSE AfterRows(headers, Len(dataRows),
                 ValidateRows([threw |-> FALSE,
                               findings |->
                                 OptionalHeaderFindings(headers, options),
                               dates |-> <<>>, seenDates |-> {}],
                              dataRows, 0, headers, options),
                 options)

\* A header check that goes on to the optional header and the row count
\* when a required header is missing
ValidateParsedCounting(headers, dataRows, options) ==
  IF Len(MissingHeaders(headers)) > 0
  THEN [threw |-> FALSE,
        result |-> buildErrorResponse(
          Append(OptionalHeaderFindings(headers, options),
                 Finding("error", "MISSING_REQUIRED_HEADERS",
                         [missing |-> MissingHeaders(headers)])),
          Len(dataRows))]
  ELSE IF Len(dataRows) > MaxRowsOf(options)
  THEN [threw |-> FALSE,
        result |-> buildErrorResponse(
          Append(OptionalHeaderFindings(headers, options),
                 Finding("error", "MAX_ROWS_EXCEEDED",
                         [maxRows |-> MaxRowsOf(options),
                          actualRows |-> Len(dataRows)])),
          Len(dataRows))]
  ELSE AfterRows(headers, Len(dataRows),
                 ValidateRows([threw |-> FALSE,
                               findings |->
                                 OptionalHeaderFindings(headers, options),
                               dates |-> <<>>, seenDates |-> {}],
                              dataRows, 0, headers, options),
                 options)

\* validateGA4CSV from the header check on
ValidateParsed(headers, dataRows, options) ==
  IF Len(MissingHeaders(headers)) > 0
  THEN [threw |-> FALSE,
        result |-> buildErrorResponse(
          <<Finding("error", "MISSING_REQUIRED_HEADERS",
                    [missing |-> MissingHeaders(headers)])>>, 0)]
  ELSE IF Len(dataRows) > MaxRowsOf(options)
  THEN [threw |-> FALSE,
        result |-> buildErrorResponse(
          Append(OptionalHeaderFindings(headers, options),
                 Finding("error", "MAX_ROWS_EXCEEDED",
                         [maxRows |-> MaxRowsOf(options),
                          actualRows |-> Len(dataRows)])),
          Len(dataRows))]
  ELSE AfterRows(headers, Len(dataRows),
                 ValidateRows([threw |-> FALSE,
                               findings |->
                                 OptionalHeaderFindings(headers, options),
                               dates |-> <<>>, seenDates |-> {}],
                              dataRows, 0, headers, options),
                 options)

\* validateGA4CSV from the parsed rows on
ValidateRowsOf(rows, options) ==
  IF Len(rows) = 0
  THEN [threw |-> FALSE,
        result |-> buildErrorResponse(
          <<Finding("error", "EMPTY_CSV", NoPointer)>>, 0)]
  ELSE ValidateParsed(rows[1], SubSeq(rows, 2, Len(rows)), options)

\* validateGA4CSV from the decoded content on
ValidateDecoded(decoded, options) ==
  IF decoded.threw
  THEN [threw |-> FALSE,
        result |-> buildErrorResponse(
          <<Finding("error", "INVALID_CONTENT_ENCODING", NoPointer)>>, 0)]
  ELSE ValidateRowsOf(parseCSV(decoded.text), options)

\* A validator that reads the clock: past the first instant it gives up.
validateGA4CSVClocked(content, options) ==
  IF options.t = "null" \/ now > 0 THEN [threw |-> TRUE]
  ELSE ValidateDecoded(decodeContent(content), options)

\* validateGA4CSV(content, options): threw, or the ValidationSuccess
\* returned.  options is the request's options value (undefined takes the
\* default {}; reading a property of null throws a TypeError).
validateGA4CSV(content, options) ==
  IF options.t = "null" THEN [threw |-> TRUE]
  ELSE ValidateDecoded(decodeContent(content), options)

----------------------------------------------------------------------------
(* index.ts: responses *)

\* A response: the HTTP status and the JSON body.  A field the body does
\* not carry is Undefined, which JSON.stringify drops: a body parsed back
\* from the store is the record it was stored as.
Body(ok, error, summary, findings, normalized, idempotency) ==
  [ok |-> ok, error |-> error, summary |-> summary, findings |-> findings,
   normalized |-> normalized, idempotency |-> idempotency,
   status |-> Undefined, types |-> Undefined]

ErrorBody(code) ==
  Body(FALSE, [code |-> code], Undefined, Undefined, Undefined, Undefined)

\* jsonResponse(body, status)
jsonResponse(body, status) == [status |-> status, body |-> body]

NoResponse == [status |-> 0]

notFound == jsonResponse(ErrorBody("NOT_FOUND"), 404)

sGA4Type ==
  <<"c", "s", "v", ".", "t", "i", "m", "e", "s", "e", "r", "i", "e", "s",
    ".", "g", "a", "4", ".", "v", "1">>

\* What performValidation makes of the validator's outcome
ValidatedResponse(v) ==
  IF v.threw
  THEN [threw |-> TRUE, validated |-> TRUE, engine |-> <<v>>,
        body |-> Undefined]
  ELSE IF ~v.result.summary.valid
  THEN [threw |-> FALSE, validated |-> TRUE, engine |-> <<v>>,
        body |-> Body(FALSE, [code |-> "VALIDATION_FAILED"], Undefined,
                      [items |-> v.result.findings], Undefined, Undefined)]
  ELSE [threw |-> FALSE, validated |-> TRUE, engine |-> <<v>>,
        body |-> Body(TRUE, Undefined, v.result.summary,
                      [items |-> v.result.findings], v.result.normalized,
                      Undefined)]

\* A dispatch that runs the GA4 validator whatever the type
performValidationAnyType(req) ==
  ValidatedResponse(validateGA4CSV(req.content.s, req.options))

\* performValidation(req): threw when the validator throws, else the
\* ValidationResponse; "validated" tells whether validateGA4CSV was called
\* and "engine" holds what each call of it came to.
performValidation(req) ==
  IF req.type.s = sGA4Type
  THEN ValidatedResponse(validateGA4CSV(req.content.s, req.options))
  ELSE [threw |-> FALSE, validated |-> FALSE, engine |-> <<>>,
        body |-> ErrorBody("UNSUPPORTED_TYPE")]

\* result.ok ? 200 : 422
StatusOf(body) == IF body.ok THEN 200 ELSE 422

\* A 500 whose body has no error object
internalErrorBare ==
  jsonResponse(
    Body(FALSE, Undefined, Undefined, Undefined, Undefined, Undefined), 500)

\* The 500 of fetch's outer catch
internalError == jsonResponse(ErrorBody("INTERNAL_ERROR"), 500)

----------------------------------------------------------------------------
(* middleware/auth.ts *)

RECURSIVE FilterNonEmpty(_)
\* .filter(Boolean) on an array of strings
FilterNonEmpty(ss) ==
  IF ss = <<>> THEN <<>>
  ELSE IF Head(ss) = <<>> THEN FilterNonEmpty(Tail(ss))
  ELSE <<Head(ss)>> \o FilterNonEmpty(Tail(ss))

\* parseApiKeys(raw): raw is a string, or Undefined when the secret is unset
parseApiKeys(raw) ==
  IF Falsy(raw) THEN <<>>
  ELSE LET parts == Split(raw.s, ",")
       IN FilterNonEmpty([i \in 1..Len(parts) |-> Trim(parts[i])])

\* request.headers.get(name)?.trim(): a header is a string or Undefined
TrimHeader(h) == IF h.t = "str" THEN Str(Trim(h.s)) ELSE Undefined

\* A key check that lets a request without a key header through
requireAuthLenient(request, environment) ==
  LET presented == TrimHeader(request.apiKey)
      allowedKeys == parseApiKeys(environment.VALIDATION_API_KEYS)
  IN IF Len(allowedKeys) = 0
     THEN jsonResponse(ErrorBody("CONFIG_ERROR"), 500)
     ELSE IF ~Falsy(presented) /\ ~Includes(allowedKeys, presented.s)
     THEN jsonResponse(ErrorBody("UNAUTHORIZED"), 401)
     ELSE NoResponse

\* requireAuth: the response that stops the request, or NoResponse to
\* continue.
requireAuth(request, environment) ==
  LET presented == TrimHeader(request.apiKey)
      allowedKeys == parseApiKeys(environment.VALIDATION_API_KEYS)
  IN IF Len(allowedKeys) = 0
     THEN jsonResponse(ErrorBody("CONFIG_ERROR"), 500)
     ELSE IF Falsy(presented) \/ ~Includes(allowedKeys, presented.s)
     THEN jsonResponse(ErrorBody("UNAUTHORIZED"), 401)
     ELSE NoResponse

----------------------------------------------------------------------------
(* middleware/idempotency.ts: the KV namespace and its keys *)

\* A retention of two days
TTL_TWO_DAYS == 48 * 60 * 60

IDEMPOTENCY_TTL_SECONDS == 24 * 60 * 60

sIdem == <<"i", "d", "e", "m", ":">>
sIdemFp == <<"i", "d", "e", "m", "-", "f", "p", ":">>

\* A result key that leaves the fingerprint out
ResultKeyNoFingerprint(apiKey, idempotencyKey, fingerprint) ==
  sIdem \o sha256(apiKey) \o <<":">> \o idempotencyKey \o <<":">>

\* `idem:${apiKeyHash}:${idempotencyKey}:${fingerprint}`
ResultKey(apiKey, idempotencyKey, fingerprint) ==
  sIdem \o sha256(apiKey) \o <<":">> \o idempotencyKey \o <<":">>
    \o fingerprint

\* A listed prefix that leaves the caller out
ListPrefixNoCaller(apiKey, idempotencyKey) == sIdem

\* `idem:${apiKeyHash}:${idempotencyKey}:`, the prefix listed
ListPrefix(apiKey, idempotencyKey) ==
  sIdem \o sha256(apiKey) \o <<":">> \o idempotencyKey \o <<":">>

\* `idem-fp:${apiKeyHash}:${idempotencyKey}`
FingerprintKey(apiKey, idempotencyKey) ==
  sIdemFp \o sha256(apiKey) \o <<":">> \o idempotencyKey

\* A key is readable until its expiration time.
Live(key) == key \in DOMAIN kv /\ kv[key].expiresAt > now

\* IDEMPOTENCY_KV.get(key): the stored value, or Null
KvGet(key) == IF Live(key) THEN kv[key].value ELSE Null

\* A list that returns no key
KvListNone(prefix) == {}

\* IDEMPOTENCY_KV.list({prefix}).keys
KvList(prefix) == {k \in DOMAIN kv : Live(k) /\ StartsWith(k, prefix)}

\* IDEMPOTENCY_KV.put(key, value, {expirationTtl})
KvPut(store, key, value, ttl) ==
  [k \in DOMAIN store \cup {key} |->
     IF k = key THEN [value |-> value, expiresAt |-> now + ttl]
     ELSE store[k]]

\* A 409 that carries an idempotency marker
conflictResponseMarked ==
  jsonResponse(
    [ErrorBody("IDEMPOTENCY_KEY_REUSE_MISMATCH") EXCEPT
       !.idempotency = [key |-> <<>>, replayed |-> FALSE]],
    409)

\* The 409 checkIdempotency throws
conflictResponse ==
  jsonResponse(ErrorBody("IDEMPOTENCY_KEY_REUSE_MISMATCH"), 409)

\* A marker that always says replayed: false
WithIdempotencyFresh(body, key, replayed) ==
  [body EXCEPT !.idempotency = [key |-> key, replayed |-> FALSE]]

\* response.idempotency = {key, replayed}
WithIdempotency(body, key, replayed) ==
  [body EXCEPT !.idempotency = [key |-> key, replayed |-> replayed]]

\* The IdempotencyMetadata stored for a response
Metadata(idempotencyKey, fingerprint, response) ==
  [key |-> idempotencyKey, fingerprint |-> fingerprint,
   response |-> response, timestamp |-> now]

----------------------------------------------------------------------------
(* index.ts: fetch *)

sHealthPath ==
  <<"/", "h", "e", "a", "l", "t", "h">>

sApiPrefix ==
  <<"/", "a", "p", "i", "/">>

sTypesPath ==
  <<"/", "a", "p", "i", "/", "t", "y", "p", "e", "s">>

sValidatePath ==
  <<"/", "a", "p", "i", "/", "v", "a", "l", "i", "d", "a", "t", "e">>

\* A request being handled: the request as received, the position of its
\* handler and what the handler holds.  The fields from "pred" on are
\* history, written and never read by the handler: the requests answered
\* before this one arrived, the calls of performValidation and of
\* validateGA4CSV and what these came to, the keys (or prefix) read from
\* the namespace, the keys put, the keys that were readable at every one
\* of its reads and the keys that were readable at one of them, and the
\* position at which a KV operation of it failed, if one did.
NewRequest(input) ==
  [input |-> input, pc |-> "received", fingerprint |-> <<>>,
   result |-> Undefined, response |-> NoResponse,
   pred |-> {i \in 1..Len(reqs) : reqs[i].pc = "done"},
   performed |-> 0, validated |-> 0, engine |-> <<>>, gets |-> <<>>,
   puts |-> <<>>, seen |-> {}, met |-> {}, fault |-> "none"]

Respond(r, response) == [r EXCEPT !.pc = "done", !.response = response]

\* The request after a call of performValidation with outcome v
Performed(r, v) ==
  [r EXCEPT !.performed = @ + 1,
            !.validated = @ + (IF v.validated THEN 1 ELSE 0),
            !.engine = @ \o v.engine]

\* A path without idempotency that marks its response all the same
DirectOutcomeMarked(r, v) ==
  IF v.threw THEN Respond(Performed(r, v), internalError)
  ELSE Respond(Performed(r, v),
               jsonResponse(WithIdempotency(v.body, <<>>, FALSE),
                            StatusOf(v.body)))

\* The path without idempotency, given performValidation's outcome
DirectOutcome(r, v) ==
  IF v.threw THEN Respond(Performed(r, v), internalError)
  ELSE Respond(Performed(r, v), jsonResponse(v.body, StatusOf(v.body)))

\* performValidation(body) on the path without idempotency, and the
\* response returned
ValidateDirect(r) == DirectOutcome(r, performValidation(r.input.body))

\* An idempotent path that goes on to store when the validator threw
StoreOutcomeAlways(r, v) ==
  [Performed(r, v) EXCEPT
     !.pc = "put",
     !.result = WithIdempotency(
                  IF v.threw THEN ErrorBody("INTERNAL_ERROR") ELSE v.body,
                  r.input.idempotencyKey.s, FALSE)]

\* The idempotent path, given performValidation's outcome
StoreOutcome(r, v) ==
  IF v.threw THEN Respond(Performed(r, v), internalError)
  ELSE [Performed(r, v) EXCEPT
          !.pc = "put",
          !.result = WithIdempotency(v.body, r.input.idempotencyKey.s,
                                     FALSE)]

\* checkIdempotency returned null: performValidation(body), the result
\* marked replayed: false, then on to storeIdempotentResponse
ValidateThenStore(r) == StoreOutcome(r, performValidation(r.input.body))

\* fetch from its start to its first KV operation, or to its response when
\* the request needs none
Handle(r) ==
  LET in == r.input
      auth == requireAuth(in, env)
      idempotencyKey == in.idempotencyKey
      apiKey == TrimHeader(in.apiKey)
  IN
  IF in.method = "GET" /\ in.path = sHealthPath
  THEN Respond(r, jsonResponse(
         [Body(TRUE, Undefined, Undefined, Undefined, Undefined, Undefined)
            EXCEPT !.status = [service |-> "rapidtools-validation",
                               version |-> IF Falsy(env.SERVICE_VERSION)
                                           THEN <<"1", ".", "0", ".", "0">>
                                           ELSE env.SERVICE_VERSION.s]],
         200))
  ELSE IF StartsWith(in.path, sApiPrefix) /\ auth # NoResponse
  THEN Respond(r, auth)
  ELSE IF in.method = "GET" /\ in.path = sTypesPath
  THEN Respond(r, jsonResponse(
         [Body(TRUE, Undefined, Undefined, Undefined, Undefined, Undefined)
            EXCEPT !.types = <<"csv.timeseries.ga4.v1">>],
         200))
  ELSE IF in.method = "POST" /\ in.path = sValidatePath
  THEN IF in.body.t = "invalid"
       THEN Respond(r, jsonResponse(ErrorBody("INVALID_JSON"), 400))
       ELSE IF Falsy(in.body.type)
       THEN Respond(r, jsonResponse(ErrorBody("MISSING_TYPE"), 400))
       ELSE IF Falsy(in.body.content)
       THEN Respond(r, jsonResponse(ErrorBody("MISSING_CONTENT"), 400))
       ELSE IF Falsy(idempotencyKey) \/ Falsy(apiKey)
       THEN ValidateDirect(r)
       ELSE [r EXCEPT !.pc = "check",
                      !.fingerprint = computeFingerprint(in.body)]
  ELSE Respond(r, notFound)

\* A request arrives and fetch runs to its first KV operation.
Receive(input) ==
  /\ Len(reqs) < MaxRequests
  /\ reqs' = Append(reqs, Handle(NewRequest(input)))
  /\ UNCHANGED <<variant, env, now, kv>>

ApiKeyOf(r) == TrimHeader(r.input.apiKey).s
TokenOf(r) == r.input.idempotencyKey.s

LiveKeys == {k \in DOMAIN kv : Live(k)}

Looked(r, key) ==
  [r EXCEPT !.gets = Append(@, key),
            !.seen = IF r.gets = <<>> THEN LiveKeys ELSE @ \cap LiveKeys,
            !.met = @ \cup LiveKeys]

\* A get of the exact key that puts the record back on a hit, renewing
\* its expiration
CheckExactRefresh(i) ==
  LET r == reqs[i]
      key == ResultKey(ApiKeyOf(r), TokenOf(r), r.fingerprint)
      stored == KvGet(key)
      replay == WithIdempotency(stored.json.response, TokenOf(r), TRUE)
  IN /\ variant = "list"
     /\ r.pc = "check"
     /\ reqs' = [reqs EXCEPT ![i] =
          IF stored # Null
          THEN Respond(Looked(r, key),
                       jsonResponse(replay, StatusOf(replay)))
          ELSE [Looked(r, key) EXCEPT !.pc = "list"]]
     /\ kv' = IF stored # Null
              THEN KvPut(kv, key, stored, IDEMPOTENCY_TTL_SECONDS)
              ELSE kv
     /\ UNCHANGED <<variant, env, now>>

\* checkIdempotency, list-by-prefix build: the get of the exact key
CheckExact(i) ==
  LET r == reqs[i]
      key == ResultKey(ApiKeyOf(r), TokenOf(r), r.fingerprint)
      stored == KvGet(key)
      replay == WithIdempotency(stored.json.response, TokenOf(r), TRUE)
  IN /\ variant = "list"
     /\ r.pc = "check"
     /\ reqs' = [reqs EXCEPT ![i] =
          IF stored # Null
          THEN Respond(Looked(r, key),
                       jsonResponse(replay, StatusOf(replay)))
          ELSE [Looked(r, key) EXCEPT !.pc = "list"]]
     /\ UNCHANGED <<variant, env, now, kv>>

\* A list of the token's keys whose result is ignored
CheckPrefixNoConflict(i) ==
  LET r == reqs[i]
      prefix == ListPrefix(ApiKeyOf(r), TokenOf(r))
  IN /\ variant = "list"
     /\ r.pc = "list"
     /\ reqs' = [reqs EXCEPT ![i] = ValidateThenStore(Looked(r, prefix))]
     /\ UNCHANGED <<variant, env, now, kv>>

\* checkIdempotency, list-by-prefix build: the list of the token's keys
CheckPrefix(i) ==
  LET r == reqs[i]
      prefix == ListPrefix(ApiKeyOf(r), TokenOf(r))
  IN /\ variant = "list"
     /\ r.pc = "list"
     /\ reqs' = [reqs EXCEPT ![i] =
          IF KvList(prefix) # {}
          THEN Respond(Looked(r, prefix), conflictResponse)
          ELSE ValidateThenStore(Looked(r, prefix))]
     /\ UNCHANGED <<variant, env, now, kv>>

\* A get of the token's fingerprint that is not compared with the
\* request's
CheckFingerprintNoCompare(i) ==
  LET r == reqs[i]
      key == FingerprintKey(ApiKeyOf(r), TokenOf(r))
      storedFingerprint == KvGet(key)
  IN /\ variant = "fp"
     /\ r.pc = "check"
     /\ reqs' = [reqs EXCEPT ![i] =
          IF storedFingerprint = Null
          THEN ValidateThenStore(Looked(r, key))
          ELSE [Looked(r, key) EXCEPT !.pc = "stored"]]
     /\ UNCHANGED <<variant, env, now, kv>>

\* checkIdempotency, stored-fingerprint build: the get of the token's
\* fingerprint
CheckFingerprint(i) ==
  LET r == reqs[i]
      key == FingerprintKey(ApiKeyOf(r), TokenOf(r))
      storedFingerprint == KvGet(key)
  IN /\ variant = "fp"
     /\ r.pc = "check"
     /\ reqs' = [reqs EXCEPT ![i] =
          IF storedFingerprint = Null
          THEN ValidateThenStore(Looked(r, key))
          ELSE IF storedFingerprint.text # r.fingerprint
          THEN Respond(Looked(r, key), conflictResponse)
          ELSE [Looked(r, key) EXCEPT !.pc = "stored"]]
     /\ UNCHANGED <<variant, env, now, kv>>

\* A get of the cached response that on a hit puts the token's
\* fingerprint back, renewing its expiration
CheckStoredRefresh(i) ==
  LET r == reqs[i]
      key == ResultKey(ApiKeyOf(r), TokenOf(r), r.fingerprint)
      stored == KvGet(key)
      replay == WithIdempotency(stored.json.response, TokenOf(r), TRUE)
  IN /\ variant = "fp"
     /\ r.pc = "stored"
     /\ reqs' = [reqs EXCEPT ![i] =
          IF stored # Null
          THEN Respond(Looked(r, key),
                       jsonResponse(replay, StatusOf(replay)))
          ELSE ValidateThenStore(Looked(r, key))]
     /\ kv' = IF stored # Null
              THEN KvPut(kv, FingerprintKey(ApiKeyOf(r), TokenOf(r)),
                         [text |-> r.fingerprint], IDEMPOTENCY_TTL_SECONDS)
              ELSE kv
     /\ UNCHANGED <<variant, env, now>>

\* checkIdempotency, stored-fingerprint build: the get of the cached
\* response once the fingerprint matched
CheckStored(i) ==
  LET r == reqs[i]
      key == ResultKey(ApiKeyOf(r), TokenOf(r), r.fingerprint)
      stored == KvGet(key)
      replay == WithIdempotency(stored.json.response, TokenOf(r), TRUE)
  IN /\ variant = "fp"
     /\ r.pc = "stored"
     /\ reqs' = [reqs EXCEPT ![i] =
          IF stored # Null
          THEN Respond(Looked(r, key),
                       jsonResponse(replay, StatusOf(replay)))
          ELSE ValidateThenStore(Looked(r, key))]
     /\ UNCHANGED <<variant, env, now, kv>>

Put(r, key) == [r EXCEPT !.puts = Append(@, key)]

\* storeIdempotentResponse: the put of the response.  The list-by-prefix
\* build returns after it and fetch responds.
StoreResponse(i) ==
  LET r == reqs[i]
      key == ResultKey(ApiKeyOf(r), TokenOf(r), r.fingerprint)
      value == [json |-> Metadata(TokenOf(r), r.fingerprint, r.result)]
  IN /\ r.pc = "put"
     /\ kv' = KvPut(kv, key, value, IDEMPOTENCY_TTL_SECONDS)
     /\ reqs' = [reqs EXCEPT ![i] =
          IF variant = "list"
          THEN Respond(Put(r, key),
                       jsonResponse(r.result, StatusOf(r.result)))
          ELSE [Put(r, key) EXCEPT !.pc = "putFingerprint"]]
     /\ UNCHANGED <<variant, env, now>>

\* storeIdempotentResponse, stored-fingerprint build: the put of the
\* fingerprint, after which fetch responds
StoreFingerprint(i) ==
  LET r == reqs[i]
      key == FingerprintKey(ApiKeyOf(r), TokenOf(r))
  IN /\ r.pc = "putFingerprint"
     /\ kv' = KvPut(kv, key, [text |-> r.fingerprint],
                    IDEMPOTENCY_TTL_SECONDS)
     /\ reqs' = [reqs EXCEPT ![i] =
          Respond(Put(r, key), jsonResponse(r.result, StatusOf(r.result)))]
     /\ UNCHANGED <<variant, env, now>>

----------------------------------------------------------------------------
(* A KV operation that fails: the promise rejects with an Error *)

\* A failed get or list taken for a miss: checkIdempotency returns null
LookupFailsAsMiss(i) ==
  /\ reqs[i].pc \in {"check", "list", "stored"}
  /\ reqs' = [reqs EXCEPT ![i] =
       ValidateThenStore([reqs[i] EXCEPT !.fault = reqs[i].pc])]
  /\ UNCHANGED <<variant, env, now, kv>>

\* The get or list of checkIdempotency rejects: the Error is no Response,
\* fetch rethrows it and its outer catch answers 500.
LookupFails(i) ==
  /\ reqs[i].pc \in {"check", "list", "stored"}
  /\ reqs' = [reqs EXCEPT ![i] =
       Respond([reqs[i] EXCEPT !.fault = reqs[i].pc], internalError)]
  /\ UNCHANGED <<variant, env, now, kv>>

\* A put of storeIdempotentResponse rejects, the namespace unchanged by
\* it: the outer catch of fetch answers 500.
PutFails(i) ==
  /\ reqs[i].pc \in {"put", "putFingerprint"}
  /\ reqs' = [reqs EXCEPT ![i] =
       Respond([reqs[i] EXCEPT !.fault = reqs[i].pc], internalError)]
  /\ UNCHANGED <<variant, env, now, kv>>

----------------------------------------------------------------------------
(* Time *)

TickSeconds == 12 * 60 * 60

\* Half a retention window passes; the namespace drops the keys whose
\* expiration time has come.
Tick ==
  /\ now < MaxTicks * TickSeconds
  /\ now' = now + TickSeconds
  /\ kv' = [k \in {k \in DOMAIN kv : kv[k].expiresAt > now'} |-> kv[k]]
  /\ UNCHANGED <<variant, env, reqs>>

----------------------------------------------------------------------------
(* The requests and bindings the model draws from *)

sOtherType ==
  <<"c", "s", "v", ".", "d", "i", "f", "f", "e", "r", "e", "n", "t", ".",
    "t", "y", "p", "e", ".", "v", "1">>

ValidCsv ==
  <<"t", "e", "x", "t", ":", "d", "a", "t", "e", ",", "s", "e", "s", "s",
    "i", "o", "n", "s", ",", "u", "s", "e", "r", "s", "\n", "2", "0", "2",
    "4", "-", "0", "1", "-", "0", "1", ",", "1", "0", ",", "5">>

MissingUsersCsv ==
  <<"t", "e", "x", "t", ":", "d", "a", "t", "e", ",", "s", "e", "s", "s",
    "i", "o", "n", "s", "\n", "2", "0", "2", "4", "-", "0", "1", "-", "0",
    "1", ",", "1", "0">>

Month13Csv ==
  <<"t", "e", "x", "t", ":", "d", "a", "t", "e", ",", "s", "e", "s", "s",
    "i", "o", "n", "s", ",", "u", "s", "e", "r", "s", "\n", "2", "0", "2",
    "4", "-", "1", "3", "-", "0", "1", ",", "1", "0", ",", "5">>

sSource ==
  <<"s", "o", "u", "r", "c", "e">>

KeyOne == <<"k", "1">>
KeyTwo == <<"k", "2">>
UnknownKey == <<"z", "z">>

\* Two idempotency tokens, the second the first followed by ":b"
TokenA == <<"a">>
TokenAB == <<"a", ":", "b">>

RequestBody(type, content, options, context) ==
  [t |-> "obj", type |-> type, content |-> content, options |-> options,
   context |-> context]

BaseBody == RequestBody(Str(sGA4Type), Str(ValidCsv), Undefined, Undefined)

\* The base body, and bodies that differ from it in one field: the type,
\* the content (a CSV that fails validation, a CSV with month 13), the
\* options (an empty object, a set flag) and the context.
Bodies ==
  {BaseBody,
   [BaseBody EXCEPT !.type = Str(sOtherType)],
   [BaseBody EXCEPT !.content = Str(MissingUsersCsv)],
   [BaseBody EXCEPT !.content = Str(Month13Csv)],
   [BaseBody EXCEPT !.options = Obj(<<>>)],
   [BaseBody EXCEPT !.options =
      Obj(<< <<sAllowPageviewsMissing, Bool(TRUE)>> >>)],
   [BaseBody EXCEPT !.context = Obj(<< <<sSource, Str(<<"x">>)>> >>)]}

Request(method, path, apiKey, idempotencyKey, body) ==
  [method |-> method, path |-> path, apiKey |-> apiKey,
   idempotencyKey |-> idempotencyKey, body |-> body]

\* POST /api/validate: by the first key every body without a token and
\* with the token "a"; two bodies with the token "a:b", and two by the
\* second key with the token "a".
ValidateRequests ==
  {Request("POST", sValidatePath, Str(KeyOne), tok, b) :
     tok \in {Undefined, Str(TokenA)}, b \in Bodies}
  \cup
  {Request("POST", sValidatePath, k[1], k[2], b) :
     k \in {<<Str(KeyOne), Str(TokenAB)>>, <<Str(KeyTwo), Str(TokenA)>>},
     b \in {BaseBody, [BaseBody EXCEPT !.content = Str(MissingUsersCsv)]}}

\* Requests that end before validation: the health check, the types
\* listing with and without a key, an unknown key, an unknown path, and
\* bodies that are not JSON or lack the type or the content.
OtherRequests ==
  {Request("GET", sHealthPath, Undefined, Undefined, Undefined),
   Request("GET", sTypesPath, Undefined, Undefined, Undefined),
   Request("GET", sTypesPath, Str(KeyOne), Undefined, Undefined),
   Request("POST", sValidatePath, Str(UnknownKey), Str(TokenA), BaseBody),
   Request("GET", <<"/", "x">>, Str(KeyOne), Undefined, Undefined),
   Request("POST", sValidatePath, Str(KeyOne), Str(TokenA),
           [t |-> "invalid"]),
   Request("POST", sValidatePath, Str(KeyOne), Str(TokenA),
           [BaseBody EXCEPT !.type = Undefined]),
   Request("POST", sValidatePath, Str(KeyOne), Str(TokenA),
           [BaseBody EXCEPT !.content = Str(<<>>)])}

Requests == ValidateRequests \cup OtherRequests

\* VALIDATION_API_KEYS = "k1, k2", or the secret unset
Environments ==
  {[VALIDATION_API_KEYS |-> Str(KeyOne \o <<",", " ">> \o KeyTwo),
    SERVICE_VERSION |-> Undefined],
   [VALIDATION_API_KEYS |-> Undefined,
    SERVICE_VERSION |-> Str(<<"2", ".", "0", ".", "0">>)]}

----------------------------------------------------------------------------
(* The validator and the fingerprint on their own: the requests drawn *)

\* The content of the README request
ReadmeCsv ==
  <<"t", "e", "x", "t", ":", "d", "a", "t", "e", ",", "s", "e", "s", "s",
    "i", "o", "n", "s", ",", "u", "s", "e", "r", "s", "\n", "2", "0", "2",
    "4", "-", "0", "1", "-", "0", "1", ",", "1", "5", "0", ",", "1", "2",
    "0">>

\* Two well-formed rows with pageviews
TwoRowsCsv ==
  <<"t", "e", "x", "t", ":", "d", "a", "t", "e", ",", "s", "e", "s", "s",
    "i", "o", "n", "s", ",", "u", "s", "e", "r", "s", ",", "p", "a", "g",
    "e", "v", "i", "e", "w", "s", "\n", "2", "0", "2", "4", "-", "0", "1",
    "-", "0", "1", ",", "1", ",", "1", ",", "1", "\n", "2", "0", "2", "4",
    "-", "0", "1", "-", "0", "2", ",", "2", ",", "2", ",", "2">>

\* One date on three rows
DuplicateCsv ==
  <<"t", "e", "x", "t", ":", "d", "a", "t", "e", ",", "s", "e", "s", "s",
    "i", "o", "n", "s", ",", "u", "s", "e", "r", "s", "\n", "2", "0", "2",
    "4", "-", "0", "1", "-", "0", "1", ",", "1", ",", "1", "\n", "2", "0",
    "2", "4", "-", "0", "1", "-", "0", "1", ",", "2", ",", "2", "\n", "2",
    "0", "2", "4", "-", "0", "1", "-", "0", "1", ",", "3", ",", "3">>

\* Rows with a sessions value that is no number, a date in no format, too
\* few columns, and a date seen before
MixedRowsCsv ==
  <<"t", "e", "x", "t", ":", "d", "a", "t", "e", ",", "s", "e", "s", "s",
    "i", "o", "n", "s", ",", "u", "s", "e", "r", "s", "\n", "2", "0", "2",
    "4", "-", "0", "1", "-", "0", "2", ",", "x", ",", "1", "\n", "x", ",",
    "1", ",", "1", "\n", "2", "0", "2", "4", "-", "0", "1", "-", "0", "2",
    ",", "1", "\n", "2", "0", "2", "4", "-", "0", "1", "-", "0", "2", ",",
    "1", ",", "1">>

\* A negative users value, and a date before the one above it
BadUsersCsv ==
  <<"t", "e", "x", "t", ":", "d", "a", "t", "e", ",", "s", "e", "s", "s",
    "i", "o", "n", "s", ",", "u", "s", "e", "r", "s", "\n", "2", "0", "2",
    "4", "-", "0", "1", "-", "0", "2", ",", "1", ",", "-", "1", "\n", "2",
    "0", "2", "4", "-", "0", "1", "-", "0", "1", ",", "1", ",", "1">>

\* None of the required headers, over malformed rows
NoHeadersCsv ==
  <<"t", "e", "x", "t", ":", "f", "o", "o", ",", "b", "a", "r", "\n", "2",
    "0", "2", "4", "-", "0", "1", "-", "0", "1", ",", "x", "\n", "\n", "2",
    "0", "2", "4", "-", "0", "1", "-", "0", "1", ",", "x">>

\* No date header
MissingDateCsv ==
  <<"t", "e", "x", "t", ":", "s", "e", "s", "s", "i", "o", "n", "s", ",",
    "u", "s", "e", "r", "s", ",", "p", "a", "g", "e", "v", "i", "e", "w",
    "s", "\n", "1", ",", "2", ",", "3", "\n", "-", "1", ",", "b">>

\* Dates in descending order
UnsortedCsv ==
  <<"t", "e", "x", "t", ":", "d", "a", "t", "e", ",", "s", "e", "s", "s",
    "i", "o", "n", "s", ",", "u", "s", "e", "r", "s", "\n", "2", "0", "2",
    "4", "-", "0", "1", "-", "0", "2", ",", "1", ",", "1", "\n", "2", "0",
    "2", "4", "-", "0", "1", "-", "0", "1", ",", "2", ",", "2">>

\* The base64 of "date,sessions,users\n2024-01-01,10,5"
Base64Csv ==
  <<"b", "a", "s", "e", "6", "4", ":", "Z", "G", "F", "0", "Z", "S", "x",
    "z", "Z", "X", "N", "z", "a", "W", "9", "u", "c", "y", "x", "1", "c",
    "2", "V", "y", "c", "w", "o", "y", "M", "D", "I", "0", "L", "T", "A",
    "x", "L", "T", "A", "x", "L", "D", "E", "w", "L", "D", "U", "=">>

\* Content without a prefix
NoPrefixCsv ==
  <<"d", "a", "t", "e", ",", "s", "e", "s", "s", "i", "o", "n", "s", ",",
    "u", "s", "e", "r", "s", "\n", "2", "0", "2", "4", "-", "0", "1", "-",
    "0", "1", ",", "1", "0", ",", "5">>

\* Content that is no base64
BadBase64Csv ==
  <<"b", "a", "s", "e", "6", "4", ":", "!", "!", "!">>

\* Content that is the prefix alone
EmptyCsv ==
  <<"t", "e", "x", "t", ":">>

\* A row with too few columns and an earlier date, between two rows in
\* order
SkippedRowCsv ==
  <<"t", "e", "x", "t", ":", "d", "a", "t", "e", ",", "s", "e", "s", "s",
    "i", "o", "n", "s", ",", "u", "s", "e", "r", "s", "\n", "2", "0", "2",
    "4", "-", "0", "1", "-", "0", "2", ",", "1", ",", "1", "\n", "2", "0",
    "2", "4", "-", "0", "1", "-", "0", "1", ",", "1", "\n", "2", "0", "2",
    "4", "-", "0", "1", "-", "0", "3", ",", "1", ",", "1">>

\* A date matching YYYY-MM-DD that is no calendar date
Day30FebCsv ==
  <<"t", "e", "x", "t", ":", "d", "a", "t", "e", ",", "s", "e", "s", "s",
    "i", "o", "n", "s", ",", "u", "s", "e", "r", "s", "\n", "2", "0", "2",
    "4", "-", "0", "2", "-", "3", "0", ",", "1", ",", "1">>

sMyApp ==
  <<"m", "y", "-", "a", "p", "p">>

sMeta ==
  <<"m", "e", "t", "a">>

\* The options of the README request, and the same with the keys in
\* another order
ReadmeOptions ==
  Obj(<< <<sRequireSortedByDateAsc, Bool(TRUE)>>,
         <<sAllowDuplicateDates, Bool(FALSE)>>,
         <<sMaxRows, Num(100000)>> >>)

ReadmeOptionsReordered ==
  Obj(<< <<sMaxRows, Num(100000)>>,
         <<sAllowDuplicateDates, Bool(FALSE)>>,
         <<sRequireSortedByDateAsc, Bool(TRUE)>> >>)

ReadmeContext == Obj(<< <<sSource, Str(sMyApp)>> >>)

\* A context with an object in an array in an object, the same with the
\* keys at both depths in another order, and the same with the elements
\* of the array in another order
NestedContext ==
  Obj(<< <<sMeta,
           Obj(<< <<<<"b">>, Num(1)>>,
                  <<<<"a">>,
                    Arr(<< Obj(<< <<<<"y">>, Num(2)>>,
                                  <<<<"x">>, Num(1)>> >>),
                           Str(<<"s">>) >>)>> >>)>>,
         <<sSource, Null>> >>)

NestedContextReordered ==
  Obj(<< <<sSource, Null>>,
         <<sMeta,
           Obj(<< <<<<"a">>,
                    Arr(<< Obj(<< <<<<"x">>, Num(1)>>,
                                  <<<<"y">>, Num(2)>> >>),
                           Str(<<"s">>) >>)>>,
                  <<<<"b">>, Num(1)>> >>)>> >>)

NestedContextArraySwapped ==
  Obj(<< <<sMeta,
           Obj(<< <<<<"b">>, Num(1)>>,
                  <<<<"a">>,
                    Arr(<< Str(<<"s">>),
                           Obj(<< <<<<"y">>, Num(2)>>,
                                  <<<<"x">>, Num(1)>> >>) >>)>> >>)>>,
         <<sSource, Null>> >>)

MaxRowsOption(n) == Obj(<< <<sMaxRows, Num(n)>> >>)

Flag(name) == Obj(<< <<name, Bool(TRUE)>> >>)

\* Every content with the options absent, and contents with options that
\* bear on them
EngineCases ==
  {<<c, Undefined>> :
     c \in {ValidCsv, MissingUsersCsv, Month13Csv, ReadmeCsv, TwoRowsCsv,
            DuplicateCsv, MixedRowsCsv, BadUsersCsv, NoHeadersCsv,
            MissingDateCsv, UnsortedCsv, Base64Csv, NoPrefixCsv,
            BadBase64Csv, EmptyCsv, Day30FebCsv}}
  \cup
  {<<ReadmeCsv, ReadmeOptions>>,
   <<ValidCsv, Flag(sAllowPageviewsMissing)>>,
   <<ValidCsv, Obj(<<>>)>>,
   <<TwoRowsCsv, MaxRowsOption(0)>>,
   <<TwoRowsCsv, MaxRowsOption(1)>>,
   <<TwoRowsCsv, MaxRowsOption(2)>>,
   <<TwoRowsCsv, Flag(sRequireSortedByDateAsc)>>,
   <<DuplicateCsv, MaxRowsOption(2)>>,
   <<DuplicateCsv, MaxRowsOption(3)>>,
   <<DuplicateCsv, Flag(sAllowDuplicateDates)>>,
   <<DuplicateCsv, Flag(sRequireSortedByDateAsc)>>,
   <<MixedRowsCsv, MaxRowsOption(3)>>,
   <<MixedRowsCsv, Flag(sAllowDuplicateDates)>>,
   <<MixedRowsCsv, Flag(sRequireSortedByDateAsc)>>,
   <<BadUsersCsv, Flag(sRequireSortedByDateAsc)>>,
   <<SkippedRowCsv, Flag(sRequireSortedByDateAsc)>>,
   <<NoHeadersCsv, MaxRowsOption(0)>>,
   <<MissingDateCsv, Flag(sRequireSortedByDateAsc)>>,
   <<UnsortedCsv, Flag(sRequireSortedByDateAsc)>>,
   <<UnsortedCsv, ReadmeOptionsReordered>>}

\* A validate request by the first key without a token for each case
EngineRequests ==
  {Request("POST", sValidatePath, Str(KeyOne), Undefined,
           RequestBody(Str(sGA4Type), Str(c[1]), c[2], Undefined)) :
     c \in EngineCases}

\* Validate requests by the first key with the token "a": the README
\* request, requests that differ from it or from one another in the
\* order of keys or of array elements, and requests that leave options or
\* context out or send {} for them
FingerprintRequests ==
  {Request("POST", sValidatePath, Str(KeyOne), Str(TokenA),
           RequestBody(Str(sGA4Type), Str(ReadmeCsv), oc[1], oc[2])) :
     oc \in {<<ReadmeOptions, ReadmeContext>>,
             <<ReadmeOptionsReordered, ReadmeContext>>,
             <<Undefined, NestedContext>>,
             <<Undefined, NestedContextReordered>>,
             <<Undefined, NestedContextArraySwapped>>,
             <<Undefined, Undefined>>,
             <<Obj(<<>>), Undefined>>,
             <<Obj(<<>>), Obj(<<>>)>>}}

----------------------------------------------------------------------------
(* The routes, the key check and the body checks: the requests drawn *)

UnsupportedBody == [BaseBody EXCEPT !.type = Str(sOtherType)]

\* Bodies that lack the type or the content: the field absent, null or the
\* empty string
ShapelessBodies ==
  {[BaseBody EXCEPT !.type = Undefined],
   [BaseBody EXCEPT !.type = Null],
   [BaseBody EXCEPT !.type = Str(<<>>)],
   [BaseBody EXCEPT !.content = Undefined],
   [BaseBody EXCEPT !.content = Str(<<>>)],
   [BaseBody EXCEPT !.type = Undefined, !.content = Undefined],
   [BaseBody EXCEPT !.type = Str(sOtherType), !.content = Undefined]}

\* The x-api-key headers tried: absent, empty, a configured key, the other
\* configured key, a key that is not configured
KeyHeaders ==
  {Undefined, Str(<<>>), Str(KeyOne), Str(KeyTwo), Str(UnknownKey)}

\* Every route with every key header; POST /api/validate by the first key
\* with every body that fails a body check, with and without a token, and
\* with the base body and a body of an unsupported type under the token
\* "a".
GateRequests ==
  {Request(mp[1], mp[2], key, Undefined, BaseBody) :
     mp \in {<<"GET", sHealthPath>>, <<"POST", sHealthPath>>,
             <<"GET", sTypesPath>>, <<"POST", sValidatePath>>,
             <<"GET", sApiPrefix \o <<"x">> >>, <<"GET", <<"/", "x">> >>},
     key \in KeyHeaders}
  \cup
  {Request("POST", sValidatePath, Str(KeyOne), tok, b) :
     tok \in {Undefined, Str(TokenA)},
     b \in ShapelessBodies \cup {UnsupportedBody, [t |-> "invalid"]}}
  \cup
  {Request("POST", sValidatePath, key, Str(TokenA), BaseBody) :
     key \in {Str(KeyOne), Str(UnknownKey)}}

\* VALIDATION_API_KEYS = "k1, k2", unset, empty, or separators alone
GateEnvironments ==
  Environments
  \cup
  {[VALIDATION_API_KEYS |-> Str(<<>>), SERVICE_VERSION |-> Undefined],
   [VALIDATION_API_KEYS |-> Str(<<" ", ",", " ">>),
    SERVICE_VERSION |-> Str(<<>>)]}

----------------------------------------------------------------------------
(* The specification *)

Init ==
  /\ variant \in {"list", "fp"}
  /\ env \in Environments
  /\ now = 0
  /\ kv = [k \in {} |-> Null]
  /\ reqs = <<>>

Next ==
  \/ \E input \in Requests : Receive(input)
  \/ \E i \in 1..Len(reqs) : CheckExact(i)
  \/ \E i \in 1..Len(reqs) : CheckPrefix(i)
  \/ \E i \in 1..Len(reqs) : CheckFingerprint(i)
  \/ \E i \in 1..Len(reqs) : CheckStored(i)
  \/ \E i \in 1..Len(reqs) : StoreResponse(i)
  \/ \E i \in 1..Len(reqs) : StoreFingerprint(i)
  \/ Tick

Spec == Init /\ [][Next]_vars

\* The same with KV operations that may fail
NextFault ==
  \/ Next
  \/ \E i \in 1..Len(reqs) : LookupFails(i)
  \/ \E i \in 1..Len(reqs) : PutFails(i)

SpecFault == Init /\ [][NextFault]_vars

\* The Worker with its keys configured, taking the requests that exercise
\* the validator and the fingerprint
InitEngine ==
  /\ variant \in {"list", "fp"}
  /\ env = [VALIDATION_API_KEYS |-> Str(KeyOne \o <<",", " ">> \o KeyTwo),
            SERVICE_VERSION |-> Undefined]
  /\ now = 0
  /\ kv = [k \in {} |-> Null]
  /\ reqs = <<>>

NextEngine ==
  \/ \E input \in EngineRequests \cup FingerprintRequests : Receive(input)
  \/ \E i \in 1..Len(reqs) : CheckExact(i)
  \/ \E i \in 1..Len(reqs) : CheckPrefix(i)
  \/ \E i \in 1..Len(reqs) : CheckFingerprint(i)
  \/ \E i \in 1..Len(reqs) : CheckStored(i)
  \/ \E i \in 1..Len(reqs) : StoreResponse(i)
  \/ \E i \in 1..Len(reqs) : StoreFingerprint(i)
  \/ Tick

SpecEngine == InitEngine /\ [][NextEngine]_vars

\* The Worker under every key configuration, taking the requests that
\* exercise the routes, the key check and the body checks
InitGate ==
  /\ variant \in {"list", "fp"}
  /\ env \in GateEnvironments
  /\ now = 0
  /\ kv = [k \in {} |-> Null]
  /\ reqs = <<>>

NextGate ==
  \/ \E input \in GateRequests : Receive(input)
  \/ \E i \in 1..Len(reqs) : CheckExact(i)
  \/ \E i \in 1..Len(reqs) : CheckPrefix(i)
  \/ \E i \in 1..Len(reqs) : CheckFingerprint(i)
  \/ \E i \in 1..Len(reqs) : CheckStored(i)
  \/ \E i \in 1..Len(reqs) : StoreResponse(i)
  \/ \E i \in 1..Len(reqs) : StoreFingerprint(i)
  \/ Tick

SpecGate == InitGate /\ [][NextGate]_vars

\* Three bodies with three fingerprints, sent by one caller with one token
RaceBodies ==
  {BaseBody,
   [BaseBody EXCEPT !.content = Str(MissingUsersCsv)],
   [BaseBody EXCEPT !.context = Obj(<< <<sSource, Str(<<"x">>)>> >>)]}

RaceRequests ==
  {Request("POST", sValidatePath, Str(KeyOne), Str(TokenA), b) :
     b \in RaceBodies}

\* A request arrives, of up to three in a run.
ReceiveRace(input) ==
  /\ Len(reqs) < MaxRaceRequests
  /\ reqs' = Append(reqs, Handle(NewRequest(input)))
  /\ UNCHANGED <<variant, env, now, kv>>

\* The Worker with its keys configured, taking up to three requests of one
\* caller under one token
NextRace ==
  \/ \E input \in RaceRequests : ReceiveRace(input)
  \/ \E i \in 1..Len(reqs) : CheckExact(i)
  \/ \E i \in 1..Len(reqs) : CheckPrefix(i)
  \/ \E i \in 1..Len(reqs) : CheckFingerprint(i)
  \/ \E i \in 1..Len(reqs) : CheckStored(i)
  \/ \E i \in 1..Len(reqs) : StoreResponse(i)
  \/ \E i \in 1..Len(reqs) : StoreFingerprint(i)
  \/ Tick

SpecRace == InitEngine /\ [][NextRace]_vars

----------------------------------------------------------------------------
(* The vocabulary of the properties *)

Indices == 1..Len(reqs)

Done(r) == r.pc = "done"

\* The request took the idempotent path: it carries a token and a key.
Keyed(r) == r.fingerprint # <<>>

Marker(r) == r.response.body.idempotency

Fresh(r) == Done(r) /\ Marker(r) # Undefined /\ ~Marker(r).replayed

Replayed(r) == Done(r) /\ Marker(r) # Undefined /\ Marker(r).replayed

Conflict(r) == Done(r) /\ r.response.status = 409

\* The response apart from the idempotency marker
Payload(response) ==
  [status |-> response.status,
   body |-> [response.body EXCEPT !.idempotency = Undefined]]

SameCaller(r, s) ==
  Keyed(r) /\ Keyed(s) /\ ApiKeyOf(r) = ApiKeyOf(s)

SameCallerToken(r, s) == SameCaller(r, s) /\ TokenOf(r) = TokenOf(s)

\* The request wrote its record and answered.
Committed(r) == Done(r) /\ r.puts # <<>>

RecordKey(r) == ResultKey(ApiKeyOf(r), TokenOf(r), r.fingerprint)

\* Request j came after request i had answered, and read the store only
\* while the record of i was there.
Followed(i, j) ==
  /\ i # j
  /\ Keyed(reqs[i]) /\ Keyed(reqs[j])
  /\ Committed(reqs[i])
  /\ Done(reqs[j])
  /\ i \in reqs[j].pred
  /\ reqs[j].gets # <<>>
  /\ RecordKey(reqs[i]) \in reqs[j].seen

\* handle(R1, T) then handle(R2, T) by one caller, and no third request
\* under T by that caller
Twice(i, j) ==
  /\ Followed(i, j)
  /\ SameCallerToken(reqs[i], reqs[j])
  /\ \A k \in Indices \ {i, j} : ~SameCallerToken(reqs[k], reqs[j])

ObjKeys(o) == {o.kvs[n][1] : n \in 1..Len(o.kvs)}

RECURSIVE JsonEqual(_, _)
\* Two JSON values are structurally equal: objects by their keys and
\* values, whatever the order of the keys.
JsonEqual(a, b) ==
  IF a.t # b.t THEN FALSE
  ELSE IF a.t = "obj"
  THEN /\ ObjKeys(a) = ObjKeys(b)
       /\ \A k \in ObjKeys(a) : JsonEqual(Prop(a, k), Prop(b, k))
  ELSE IF a.t = "arr"
  THEN /\ Len(a.items) = Len(b.items)
       /\ \A n \in 1..Len(a.items) : JsonEqual(a.items[n], b.items[n])
  ELSE a = b

\* An absent options or context, read as the empty object
Given(v) == IF v = Undefined THEN Obj(<<>>) ELSE v

\* Two request bodies with the same type and content and structurally
\* equal options and context
SameRequest(a, b) ==
  /\ a.type = b.type
  /\ a.content = b.content
  /\ JsonEqual(Given(a.options), Given(b.options))
  /\ JsonEqual(Given(a.context), Given(b.context))

RECURSIVE ContainsSeq(_, _)
\* s has p as a run of consecutive elements.
ContainsSeq(s, p) ==
  IF Len(s) < Len(p) THEN FALSE
  ELSE StartsWith(s, p) \/ ContainsSeq(Tail(s), p)

----------------------------------------------------------------------------
(* Replay, conflict, and what a response carries *)

\* C1: when one caller sends the same request under the same token twice,
\* the second after the first has answered and while the record of the
\* first is unexpired, the first response is marked replayed = false, the
\* second replayed = true, and apart from the marker the two responses
\* (status and body) are the same.
C1_IdempotentReplay ==
  \A i, j \in Indices :
    Twice(i, j) /\ reqs[i].input.body = reqs[j].input.body
      => /\ Fresh(reqs[i])
         /\ Replayed(reqs[j])
         /\ Marker(reqs[j]).key = TokenOf(reqs[j])
         /\ Payload(reqs[j].response) = Payload(reqs[i].response)

\* A request replayed from the record an earlier, identical request left
C1_Witness ==
  \E i, j \in Indices :
    /\ Twice(i, j)
    /\ reqs[i].input.body = reqs[j].input.body
    /\ Replayed(reqs[j])

Answered(r) ==
  /\ Done(r)
  /\ r.input.method = "POST" /\ r.input.path = sValidatePath
  /\ r.response.status \in {200, 422}

\* C3: every response that carries a result, fresh or replayed, carries
\* the result performValidation yields for that request's own body, under
\* every interleaving; a result stored for another fingerprint is never
\* returned.
C3_NoStaleResult ==
  \A i \in Indices :
    Answered(reqs[i])
      => /\ ~performValidation(reqs[i].input.body).threw
         /\ Payload(reqs[i].response).body
              = performValidation(reqs[i].input.body).body
         /\ reqs[i].response.status
              = StatusOf(performValidation(reqs[i].input.body).body)

\* A request answered with its result while the store holds, under its
\* caller and token, the record of a request with another fingerprint
C3_Witness ==
  \E i, j \in Indices :
    /\ Answered(reqs[i])
    /\ SameCallerToken(reqs[i], reqs[j])
    /\ reqs[j].fingerprint # reqs[i].fingerprint
    /\ reqs[j].puts # <<>>
    /\ Live(RecordKey(reqs[j]))

\* C4, as stated: for one caller and two different tokens, a request
\* under the second token that follows an identical request under the
\* first never ends in conflict and is never a replay.
C4_TokenIndependence ==
  \A i, j \in Indices :
    /\ Followed(i, j)
    /\ SameCaller(reqs[i], reqs[j])
    /\ TokenOf(reqs[i]) # TokenOf(reqs[j])
    /\ reqs[i].input.body = reqs[j].input.body
    /\ \A k \in Indices \ {j} : ~SameCallerToken(reqs[k], reqs[j])
    => ~Conflict(reqs[j]) /\ ~Replayed(reqs[j])

\* C5: a request by a caller that has sent nothing else is neither
\* replayed nor rejected as a conflict, whatever other callers stored
\* under its token; and every key or prefix a request reads or writes holds
\* the SHA-256 of its API key and nowhere the key itself.
C5_CallerIsolation ==
  \A j \in Indices :
    /\ (/\ Keyed(reqs[j])
        /\ \A k \in Indices \ {j} : ~SameCaller(reqs[k], reqs[j]))
       => ~Conflict(reqs[j]) /\ ~Replayed(reqs[j])
    /\ \A n \in 1..Len(reqs[j].gets \o reqs[j].puts) :
         /\ ContainsSeq((reqs[j].gets \o reqs[j].puts)[n],
                        sha256(ApiKeyOf(reqs[j])))
         /\ ~ContainsSeq((reqs[j].gets \o reqs[j].puts)[n],
                         ApiKeyOf(reqs[j]))

\* A second caller answered afresh under a token and body for which the
\* first caller's record was in the store throughout
C5_Witness ==
  \E i, j \in Indices :
    /\ Followed(i, j)
    /\ ApiKeyOf(reqs[i]) # ApiKeyOf(reqs[j])
    /\ TokenOf(reqs[i]) = TokenOf(reqs[j])
    /\ reqs[i].input.body = reqs[j].input.body
    /\ Fresh(reqs[j])
    /\ reqs[j].puts # <<>>

----------------------------------------------------------------------------
(* What each path reads, runs and writes *)

\* A validate request that passes the gate and the shape checks
Accepted(r) ==
  /\ r.input.method = "POST" /\ r.input.path = sValidatePath
  /\ requireAuth(r.input, env) = NoResponse
  /\ r.input.body.t = "obj"
  /\ ~Falsy(r.input.body.type) /\ ~Falsy(r.input.body.content)

\* C6: a validate request without an idempotency token reads nothing from
\* the store and writes nothing to it, performValidation is run for it
\* once, and its response carries no idempotency marker.
C6_NoTokenSkipsStore ==
  \A i \in Indices :
    Accepted(reqs[i]) /\ reqs[i].input.idempotencyKey = Undefined
      => /\ Done(reqs[i])
         /\ reqs[i].gets = <<>> /\ reqs[i].puts = <<>>
         /\ reqs[i].performed = 1
         /\ Marker(reqs[i]) = Undefined

\* A request without a token answered with its result while the store
\* holds a record of the same caller for the same body
C6_Witness ==
  \E i, j \in Indices :
    /\ Accepted(reqs[j]) /\ reqs[j].input.idempotencyKey = Undefined
    /\ reqs[j].response.status = 200
    /\ i \in reqs[j].pred
    /\ Committed(reqs[i]) /\ Live(RecordKey(reqs[i]))
    /\ reqs[i].input.apiKey = reqs[j].input.apiKey
    /\ reqs[i].input.body = reqs[j].input.body

\* The last key a request read
LastGet(r) == r.gets[Len(r.gets)]

\* C7: a request that reads its own record's key while the record is live
\* is answered in that step as a replay; and the step that answers a
\* request as a replay finds its record live, returns the stored response
\* marked replayed = true with the status that response implies, has not
\* called performValidation, and leaves the store as it was: no value and
\* no expiration time changes.
C7_HitReplays ==
  [][\A i \in Indices :
       /\ (/\ Keyed(reqs[i])
           /\ Len(reqs'[i].gets) = Len(reqs[i].gets) + 1
           /\ LastGet(reqs'[i]) = RecordKey(reqs[i])
           /\ Live(RecordKey(reqs[i])))
          => Replayed(reqs'[i])
       /\ (~Done(reqs[i]) /\ Replayed(reqs'[i]))
          => /\ Live(RecordKey(reqs[i]))
             /\ reqs'[i].response.body
                  = WithIdempotency(
                      kv[RecordKey(reqs[i])].value.json.response,
                      TokenOf(reqs[i]), TRUE)
             /\ reqs'[i].response.status
                  = StatusOf(kv[RecordKey(reqs[i])].value.json.response)
             /\ reqs'[i].performed = 0 /\ reqs'[i].validated = 0
             /\ reqs'[i].puts = <<>>
             /\ kv' = kv]_vars

\* A replayed request, answered half a retention window after the record
\* was written
C7_Witness ==
  \E i \in Indices :
    /\ Replayed(reqs[i])
    /\ reqs[i].performed = 0
    /\ now > 0
    /\ Live(RecordKey(reqs[i]))
    /\ kv[RecordKey(reqs[i])].expiresAt = IDEMPOTENCY_TTL_SECONDS

\* C8: a request that ends in the 409 conflict has not called
\* performValidation, has written nothing to the store, and its body is
\* the error code IDEMPOTENCY_KEY_REUSE_MISMATCH alone: no summary, no
\* findings, no idempotency marker.
C8_ConflictCarriesNothing ==
  \A i \in Indices :
    Conflict(reqs[i])
      => /\ reqs[i].performed = 0 /\ reqs[i].validated = 0
         /\ reqs[i].puts = <<>>
         /\ reqs[i].response.body.ok = FALSE
         /\ reqs[i].response.body.error
              = [code |-> "IDEMPOTENCY_KEY_REUSE_MISMATCH"]
         /\ reqs[i].response.body.summary = Undefined
         /\ reqs[i].response.body.findings = Undefined
         /\ reqs[i].response.body.normalized = Undefined
         /\ Marker(reqs[i]) = Undefined

\* A conflict on a request whose own body would have validated
C8_Witness ==
  \E i \in Indices :
    /\ Conflict(reqs[i])
    /\ performValidation(reqs[i].input.body).body.ok

\* The request has reached storeIdempotentResponse.
Storing(r) == r.pc \in {"put", "putFingerprint"} \/ r.puts # <<>>

\* C9, as stated: a request writes to the store only after the validator
\* has been called for it and returned; none writes when the validator
\* failed or was never called, as for an unsupported type.
C9_CommitOnlyAfterEngine ==
  \A i \in Indices :
    Storing(reqs[i]) => reqs[i].validated = 1

\* C9, amended: a request writes to the store only after its one call of
\* performValidation has returned a response, which may be the
\* UNSUPPORTED_TYPE error performValidation returns without calling the
\* validator; what it stores is that response marked replayed = false; a
\* request whose validator threw writes nothing.
C9_CommitOnlyAfterPerformValidation ==
  \A i \in Indices :
    /\ Storing(reqs[i])
       => /\ reqs[i].performed = 1
          /\ ~performValidation(reqs[i].input.body).threw
          /\ reqs[i].result
               = WithIdempotency(performValidation(reqs[i].input.body).body,
                                 TokenOf(reqs[i]), FALSE)
    /\ (Keyed(reqs[i]) /\ reqs[i].response = internalError)
       => reqs[i].puts = <<>>

\* A record written for a request of unsupported type, for which the
\* validator was never called
C9_Witness ==
  \E i \in Indices :
    /\ Committed(reqs[i])
    /\ reqs[i].validated = 0
    /\ reqs[i].response.body.error = [code |-> "UNSUPPORTED_TYPE"]
    /\ Live(RecordKey(reqs[i]))

OneAtATime(r) ==
  \A i, j \in Indices :
    /\ i < j
    /\ SameCallerToken(reqs[i], r) /\ SameCallerToken(reqs[j], r)
    => i \in reqs[j].pred

----------------------------------------------------------------------------
(* Store failures *)

\* C11: a request one of whose KV operations failed is answered 500
\* INTERNAL_ERROR, with no summary, findings or idempotency marker; when
\* the operation was a lookup (the get of the record or fingerprint, or
\* the list of the conflict check) performValidation has not been called
\* for it and it has written nothing.
C11_StoreFailureSurfaces ==
  \A i \in Indices :
    reqs[i].fault # "none"
      => /\ Done(reqs[i])
         /\ reqs[i].response = internalError
         /\ reqs[i].response.body.summary = Undefined
         /\ reqs[i].response.body.findings = Undefined
         /\ Marker(reqs[i]) = Undefined
         /\ reqs[i].fault \in {"check", "list", "stored"}
              => /\ reqs[i].performed = 0 /\ reqs[i].validated = 0
                 /\ reqs[i].puts = <<>>

\* A failed conflict check on a request whose token and body are new, and
\* a failed put after the engine ran
C11_Witness ==
  \E i, j \in Indices :
    /\ reqs[i].fault = "list" /\ reqs[i].met = {}
    /\ reqs[i].response.status = 500
    /\ reqs[j].fault = "put" /\ reqs[j].performed = 1
    /\ reqs[j].response.status = 500

----------------------------------------------------------------------------
(* The validation engine *)

\* C12, as stated: no call of validateGA4CSV throws, whatever the content,
\* and no accepted validate request whose KV operations all succeeded ends
\* in 500 INTERNAL_ERROR.
C12_EngineNeverThrows ==
  \A i \in Indices :
    /\ \A n \in 1..Len(reqs[i].engine) : ~reqs[i].engine[n].threw
    /\ (Accepted(reqs[i]) /\ Done(reqs[i]) /\ reqs[i].fault = "none")
         => reqs[i].response.status # 500

----------------------------------------------------------------------------
(* Expiry *)

RetentionWindow == 24 * 60 * 60

\* Request j came after request i had answered, under the same caller and
\* token, and none of the keys i wrote was readable at any read of j; no
\* other request is of that caller.
AfterExpiry(i, j) ==
  /\ i # j
  /\ SameCallerToken(reqs[i], reqs[j])
  /\ Committed(reqs[i])
  /\ Done(reqs[j])
  /\ i \in reqs[j].pred
  /\ reqs[j].gets # <<>>
  /\ \A n \in 1..Len(reqs[i].puts) : reqs[i].puts[n] \notin reqs[j].met
  /\ \A k \in Indices \ {i, j} : ~SameCaller(reqs[k], reqs[j])

\* C13: every key in the store expires within 24 hours of now, a result
\* record exactly 24 hours after the time it was written; and a request
\* under a token whose records by an earlier request have all expired is
\* handled as a fresh one, whatever its fingerprint: it ends neither in
\* conflict nor as a replay, performValidation is called for it once, and
\* unless the validator throws its result is stored and returned marked
\* replayed = false.
C13_ReuseAfterExpiry ==
  /\ \A k \in DOMAIN kv :
       /\ now < kv[k].expiresAt /\ kv[k].expiresAt <= now + RetentionWindow
       /\ "json" \in DOMAIN kv[k].value
            => kv[k].expiresAt
                 = kv[k].value.json.timestamp + RetentionWindow
  /\ \A i, j \in Indices :
       AfterExpiry(i, j)
         => /\ ~Conflict(reqs[j]) /\ ~Replayed(reqs[j])
            /\ reqs[j].performed = 1
            /\ ~performValidation(reqs[j].input.body).threw
                 => /\ Fresh(reqs[j])
                    /\ reqs[j].puts # <<>>
                    /\ Live(RecordKey(reqs[j]))

\* A token reused with another fingerprint 24 hours after its record was
\* written, answered afresh and stored
C13_Witness ==
  \E i, j \in Indices :
    /\ AfterExpiry(i, j)
    /\ reqs[i].fingerprint # reqs[j].fingerprint
    /\ now = RetentionWindow
    /\ Fresh(reqs[j])
    /\ Live(RecordKey(reqs[j]))
    /\ ~Live(RecordKey(reqs[i]))

----------------------------------------------------------------------------
(* The validator as a function of its arguments *)

\* The request ran validateGA4CSV.
Validated(r) == r.engine # <<>>

\* The two requests gave validateGA4CSV the same content and options.
SameEngineInput(r, s) ==
  /\ r.input.body.content = s.input.body.content
  /\ r.input.body.options = s.input.body.options

----------------------------------------------------------------------------
(* The fingerprint and the order of keys *)

\* {"allowDuplicateDates":false,"maxRows":100000,"requireSortedByDateAsc":true}
ReadmeOptionsText ==
  <<"{", "\"", "a", "l", "l", "o", "w", "D", "u", "p", "l", "i", "c", "a",
    "t", "e", "D", "a", "t", "e", "s", "\"", ":", "f", "a", "l", "s", "e",
    ",", "\"", "m", "a", "x", "R", "o", "w", "s", "\"", ":", "1", "0", "0",
    "0", "0", "0", ",", "\"", "r", "e", "q", "u", "i", "r", "e", "S", "o",
    "r", "t", "e", "d", "B", "y", "D", "a", "t", "e", "A", "s", "c", "\"",
    ":", "t", "r", "u", "e", "}">>

\* {"source":"my-app"}
ReadmeContextText ==
  <<"{", "\"", "s", "o", "u", "r", "c", "e", "\"", ":", "\"", "m", "y", "-",
    "a", "p", "p", "\"", "}">>

\* {"meta":{"a":[{"x":1,"y":2},"s"],"b":1},"source":null}
NestedContextText ==
  <<"{", "\"", "m", "e", "t", "a", "\"", ":", "{", "\"", "a", "\"", ":",
    "[", "{", "\"", "x", "\"", ":", "1", ",", "\"", "y", "\"", ":", "2",
    "}", ",", "\"", "s", "\"", "]", ",", "\"", "b", "\"", ":", "1", "}",
    ",", "\"", "s", "o", "u", "r", "c", "e", "\"", ":", "n", "u", "l", "l",
    "}">>

\* {"meta":{"a":["s",{"x":1,"y":2}],"b":1},"source":null}
NestedContextArraySwappedText ==
  <<"{", "\"", "m", "e", "t", "a", "\"", ":", "{", "\"", "a", "\"", ":",
    "[", "\"", "s", "\"", ",", "{", "\"", "x", "\"", ":", "1", ",", "\"",
    "y", "\"", ":", "2", "}", "]", ",", "\"", "b", "\"", ":", "1", "}", ",",
    "\"", "s", "o", "u", "r", "c", "e", "\"", ":", "n", "u", "l", "l", "}">>

\* The fingerprint of a request with the given renderings of its options
\* and context
FingerprintOf(r, optionsText, contextText) ==
  sha256(r.input.body.type.s \o sha256(r.input.body.content.s)
         \o optionsText \o contextText)

\* C15: two requests that are structurally equal have the same fingerprint,
\* whatever the order of the keys in options and context at any depth;
\* stableStringify writes an object with its keys sorted, and an array in
\* the order of its elements, so that two contexts whose arrays differ in
\* order have different fingerprints.
C15_FingerprintStable ==
  \A i \in Indices :
    Keyed(reqs[i]) =>
      /\ \A j \in Indices :
           Keyed(reqs[j]) /\ SameRequest(reqs[i].input.body, reqs[j].input.body)
             => reqs[i].fingerprint = reqs[j].fingerprint
      /\ reqs[i].input.body.options \in {ReadmeOptions, ReadmeOptionsReordered}
           => reqs[i].fingerprint
                = FingerprintOf(reqs[i], ReadmeOptionsText, ReadmeContextText)
      /\ reqs[i].input.body.context \in {NestedContext, NestedContextReordered}
           => reqs[i].fingerprint
                = FingerprintOf(reqs[i], <<"{", "}">>, NestedContextText)
      /\ reqs[i].input.body.context = NestedContextArraySwapped
           => reqs[i].fingerprint
                = FingerprintOf(reqs[i], <<"{", "}">>,
                                NestedContextArraySwappedText)

\* Two requests under one token whose contexts differ in the order of the
\* keys at two depths: the second was answered with the stored response of
\* the first.
C15_Witness ==
  \E i, j \in Indices :
    /\ Twice(i, j)
    /\ reqs[i].input.body.context = NestedContext
    /\ reqs[j].input.body.context = NestedContextReordered
    /\ reqs[i].fingerprint = reqs[j].fingerprint
    /\ Fresh(reqs[i]) /\ Replayed(reqs[j])

----------------------------------------------------------------------------
(* The results of the validator *)

\* The results validateGA4CSV returned to the requests so far
Results ==
  {reqs[i].engine[1].result :
     i \in {k \in Indices : Validated(reqs[k]) /\ ~reqs[k].engine[1].threw}}

\* The positions of the findings of a result with the given level
AtLevel(result, level) ==
  {n \in 1..Len(result.findings) : result.findings[n].level = level}

\* The positions of the findings of a result with the given code
WithCode(result, code) ==
  {n \in 1..Len(result.findings) : result.findings[n].code = code}

\* C16: in every result of the validator, valid is true exactly when no
\* finding is an error, issues is the number of error findings and warnings
\* the number of warning findings; a result whose findings are all warnings
\* is valid.
C16_ValidIffNoErrors ==
  \A result \in Results :
    /\ \A n \in 1..Len(result.findings) :
         result.findings[n].level \in {"error", "warning"}
    /\ result.summary.valid = (AtLevel(result, "error") = {})
    /\ result.summary.issues = Cardinality(AtLevel(result, "error"))
    /\ result.summary.warnings = Cardinality(AtLevel(result, "warning"))

\* One result is valid with the MISSING_OPTIONAL_HEADER warning as its only
\* finding, and another is not valid with one warning and two errors.
C16_Witness ==
  \E a, b \in Results :
    /\ a.summary.valid /\ a.summary.warnings = 1
    /\ WithCode(a, "MISSING_OPTIONAL_HEADER") = {1}
    /\ Len(a.findings) = 1
    /\ ~b.summary.valid /\ b.summary.warnings = 1 /\ b.summary.issues = 2

----------------------------------------------------------------------------
(* The header row *)

\* The rows of the content of a request whose content decodes
RowsOf(r) == parseCSV(decodeContent(r.input.body.content.s).text)

\* The result validateGA4CSV returned to a request
ResultOf(r) == r.engine[1].result

\* The required headers a header row lacks
Lacking(headers) ==
  {sDate, sSessions, sUsers} \ {headers[n] : n \in 1..Len(headers)}

\* The request's content decoded and validateGA4CSV returned a result.
Returned(r) ==
  /\ Validated(r) /\ ~r.engine[1].threw
  /\ ~decodeContent(r.input.body.content.s).threw

\* The only finding of the result is the error MISSING_REQUIRED_HEADERS that
\* lists the names of the set, and the row count is 0.
StoppedAtHeaders(result, lacking) ==
  /\ ~result.summary.valid
  /\ result.summary.issues = 1 /\ result.summary.warnings = 0
  /\ result.summary.rows = 0
  /\ Len(result.findings) = 1
  /\ result.findings[1].level = "error"
  /\ result.findings[1].code = "MISSING_REQUIRED_HEADERS"
  /\ {result.findings[1].pointer.missing[n] :
        n \in 1..Len(result.findings[1].pointer.missing)} = lacking
  /\ Len(result.findings[1].pointer.missing) = Cardinality(lacking)

\* C17: when the header row lacks a required header, the result is not
\* valid, its only finding is the error MISSING_REQUIRED_HEADERS whose
\* pointer lists the missing names and no other, and its row count is 0,
\* whatever the data rows and the options are.
C17_MissingHeadersStop ==
  \A i \in Indices :
    Returned(reqs[i]) =>
      \/ Lacking(RowsOf(reqs[i])[1]) = {}
      \/ StoppedAtHeaders(ResultOf(reqs[i]), Lacking(RowsOf(reqs[i])[1]))

\* A header row without date and without pageviews above a row with a
\* negative count and a row with too few columns, and a header row with no
\* required header above three rows with the row limit at 0.
C17_Witness ==
  \E i, j \in Indices :
    /\ Returned(reqs[i]) /\ Returned(reqs[j])
    /\ reqs[i].input.body.content = Str(MissingDateCsv)
    /\ ResultOf(reqs[i]).findings[1].pointer.missing = <<sDate>>
    /\ Len(RowsOf(reqs[i])) = 3
    /\ reqs[j].input.body.content = Str(NoHeadersCsv)
    /\ reqs[j].input.body.options = MaxRowsOption(0)
    /\ Lacking(RowsOf(reqs[j])[1]) = {sDate, sSessions, sUsers}
    /\ Len(RowsOf(reqs[j])) = 4
    /\ ResultOf(reqs[j]).summary.rows = 0

----------------------------------------------------------------------------
(* The row limit *)

\* The row limit of a request: its maxRows option, or the default
Limit(r) ==
  IF Prop(Given(r.input.body.options), sMaxRows) = Undefined
  THEN DEFAULT_MAX_ROWS
  ELSE Prop(r.input.body.options, sMaxRows).n

\* The result of a content with every required header and with rowCount
\* data rows under the limit maxRows
RowLimitKept(result, rowCount, maxRows) ==
  IF rowCount > maxRows
  THEN /\ ~result.summary.valid
       /\ result.summary.rows = rowCount
       /\ Cardinality(WithCode(result, "MAX_ROWS_EXCEEDED")) = 1
       /\ \A n \in 1..Len(result.findings) :
            \/ /\ result.findings[n].code = "MAX_ROWS_EXCEEDED"
               /\ result.findings[n].level = "error"
               /\ result.findings[n].pointer
                    = [maxRows |-> maxRows, actualRows |-> rowCount]
            \/ /\ result.findings[n].code = "MISSING_OPTIONAL_HEADER"
               /\ result.findings[n].level = "warning"
  ELSE WithCode(result, "MAX_ROWS_EXCEEDED") = {}

\* The result of a content with the given rows under the limit maxRows
RowLimitOn(result, rows, maxRows) ==
  Lacking(rows[1]) = {} => RowLimitKept(result, Len(rows) - 1, maxRows)

\* C18: for a content that has every required header, when the data rows
\* are more than maxRows (100000 unless the option says otherwise) the
\* result is not valid, has one MAX_ROWS_EXCEEDED error, reports the number
\* of data rows as its row count and has no finding of a row or of the
\* order of the dates; when the data rows are at most maxRows the result
\* has no MAX_ROWS_EXCEEDED finding.
C18_RowLimit ==
  \A i \in Indices :
    Returned(reqs[i]) =>
      RowLimitOn(ResultOf(reqs[i]), RowsOf(reqs[i]), Limit(reqs[i]))

\* Two data rows exceed a maxRows of 1, and the same two rows are within a
\* maxRows of 2.
C18_Witness ==
  \E i, j \in Indices :
    /\ Returned(reqs[i]) /\ Returned(reqs[j])
    /\ reqs[i].input.body.content = Str(TwoRowsCsv)
    /\ Limit(reqs[i]) = 1
    /\ ResultOf(reqs[i]).summary.rows = 2
    /\ ResultOf(reqs[i]).findings[1].code = "MAX_ROWS_EXCEEDED"
    /\ reqs[j].input.body.content = Str(TwoRowsCsv)
    /\ Limit(reqs[j]) = 2
    /\ ResultOf(reqs[j]).summary.valid
    /\ ResultOf(reqs[j]).summary.rows = 2

----------------------------------------------------------------------------
(* Duplicate dates *)

\* The date cell of row k of the rows (row 1 is the header row)
DateCell(rows, k) == CellAt(rows[k], IndexOf(rows[1], sDate))

\* The data rows with enough columns whose date is a valid date
Dated(rows) ==
  {k \in 2..Len(rows) :
     /\ Len(rows[k]) >= Len(requiredHeaders)
     /\ isValidDate(DateCell(rows, k)).ok}

\* The rows of the set whose date an earlier row of the set carries
Repeating(rows, dated) ==
  {k \in dated :
     \E h \in dated : h < k /\ DateCell(rows, h) = DateCell(rows, k)}

AllowsDuplicates(r) ==
  ~Falsy(Prop(Given(r.input.body.options), sAllowDuplicateDates))

\* The DUPLICATE_DATE findings of a result about the row at line rowIndex
DuplicateFindings(result, rowIndex) ==
  {n \in WithCode(result, "DUPLICATE_DATE") :
     result.findings[n].pointer.row = rowIndex}

\* The DUPLICATE_DATE findings of the result are one for each row of the
\* set, an error naming the row and its date.
DuplicatesFlagged(result, rows, repeating) ==
  /\ \A k \in 2..Len(rows) :
       Cardinality(DuplicateFindings(result, k))
         = IF k \in repeating THEN 1 ELSE 0
  /\ Cardinality(WithCode(result, "DUPLICATE_DATE")) = Cardinality(repeating)
  /\ \A n \in WithCode(result, "DUPLICATE_DATE") :
       /\ result.findings[n].level = "error"
       /\ result.findings[n].pointer.date
            = DateCell(rows, result.findings[n].pointer.row)

\* The result of a content with the given rows, once the rows went through
\* the row loop
DuplicatesOn(result, rows, maxRows, allowed) ==
  Lacking(rows[1]) = {} /\ Len(rows) - 1 <= maxRows =>
    IF allowed THEN WithCode(result, "DUPLICATE_DATE") = {}
    ELSE DuplicatesFlagged(result, rows, Repeating(rows, Dated(rows)))

\* C19: among the data rows with a valid date, the first row with a given
\* date gets no DUPLICATE_DATE finding and every later row with that date
\* gets exactly one, an error naming the row and the date; no other row gets
\* one; with allowDuplicateDates set there is no DUPLICATE_DATE finding.
C19_DuplicateDates ==
  \A i \in Indices :
    Returned(reqs[i]) =>
      DuplicatesOn(ResultOf(reqs[i]), RowsOf(reqs[i]), Limit(reqs[i]),
                   AllowsDuplicates(reqs[i]))

\* Three rows with one date: the second and the third are flagged, and with
\* allowDuplicateDates set the same rows give a valid result.
C19_Witness ==
  \E i, j \in Indices :
    /\ Returned(reqs[i]) /\ Returned(reqs[j])
    /\ reqs[i].input.body.content = Str(DuplicateCsv)
    /\ ~AllowsDuplicates(reqs[i])
    /\ Limit(reqs[i]) = DEFAULT_MAX_ROWS
    /\ DuplicateFindings(ResultOf(reqs[i]), 2) = {}
    /\ DuplicateFindings(ResultOf(reqs[i]), 3) # {}
    /\ DuplicateFindings(ResultOf(reqs[i]), 4) # {}
    /\ reqs[j].input.body.content = Str(DuplicateCsv)
    /\ AllowsDuplicates(reqs[j])
    /\ ResultOf(reqs[j]).summary.issues = 0

----------------------------------------------------------------------------
(* The README request *)

\* A data row of three cells: a valid date and two non-negative integers
WellFormedRow(row) ==
  /\ Len(row) = 3
  /\ isValidDate(Str(row[1])).ok
  /\ isNonNegativeInteger(Str(row[2]))
  /\ isNonNegativeInteger(Str(row[3]))

\* The header row date,sessions,users above one well-formed data row
ReadmeShaped(rows) ==
  /\ Len(rows) = 2
  /\ rows[1] = <<sDate, sSessions, sUsers>>
  /\ WellFormedRow(rows[2])

\* The result the README shows for its request
ReadmeResult(result) ==
  /\ result.summary = [valid |-> TRUE, issues |-> 0, warnings |-> 0, rows |-> 1]
  /\ result.findings = <<>>

\* C20: for a content with the header row date,sessions,users above one
\* well-formed data row, validated with options that do not set
\* allowPageviewsMissing, the result is valid with no issue, one row, no
\* warning and no finding, as the README shows.
C20_ReadmeExample ==
  \A i \in Indices :
    /\ Returned(reqs[i])
    /\ Falsy(Prop(Given(reqs[i].input.body.options), sAllowPageviewsMissing))
    /\ ReadmeShaped(RowsOf(reqs[i]))
      => ReadmeResult(ResultOf(reqs[i]))

----------------------------------------------------------------------------
(* The body checks *)

\* A POST /api/validate with a key that passes and a body that is JSON
Validating(r) ==
  /\ r.input.method = "POST" /\ r.input.path = sValidatePath
  /\ requireAuth(r.input, env) = NoResponse
  /\ r.input.body.t = "obj"

\* The request was answered 400 with the code and nothing else, without a
\* call of performValidation or of the validator and without a read or a
\* write of the store.
Rejected(r, code) ==
  /\ Done(r)
  /\ r.response = jsonResponse(ErrorBody(code), 400)
  /\ r.response.body.findings = Undefined
  /\ r.performed = 0 /\ r.validated = 0 /\ r.engine = <<>>
  /\ r.fingerprint = <<>> /\ r.gets = <<>> /\ r.puts = <<>>

\* The request never ran the validator, and its answer is the 422
\* UNSUPPORTED_TYPE without findings, or the 409 of a token in use.
Unsupported(r) ==
  /\ r.validated = 0 /\ r.engine = <<>>
  /\ Done(r) =>
       \/ r.response = conflictResponse
       \/ /\ r.response.status = 422
          /\ ~r.response.body.ok
          /\ r.response.body.error = [code |-> "UNSUPPORTED_TYPE"]
          /\ r.response.body.findings = Undefined
          /\ r.response.body.summary = Undefined

----------------------------------------------------------------------------
(* The key check *)

\* The keys configured
ConfiguredKeys ==
  LET keys == parseApiKeys(env.VALIDATION_API_KEYS)
  IN {keys[n] : n \in 1..Len(keys)}

UnderApi(r) == StartsWith(r.input.path, sApiPrefix)

\* The request presents one of the configured keys.
HasKey(r) ==
  r.input.apiKey.t = "str" /\ r.input.apiKey.s \in ConfiguredKeys

\* The request was answered with the status and the code, and nothing else
\* was done for it: no validation, no types listing, no read or write of
\* the store.
Refused(r, status, code) ==
  /\ Done(r)
  /\ r.response = jsonResponse(ErrorBody(code), status)
  /\ r.performed = 0 /\ r.validated = 0 /\ r.engine = <<>>
  /\ r.fingerprint = <<>> /\ r.gets = <<>> /\ r.puts = <<>>

\* C22: a request to a path under /api/ is answered 500 CONFIG_ERROR when
\* no key is configured, whatever key it presents, and 401 UNAUTHORIZED
\* when its x-api-key header is absent or is none of the configured keys;
\* in both cases nothing is validated, listed, read or stored for it.  A
\* request with a configured key is never answered 401 or CONFIG_ERROR, and
\* GET /health is answered 200 whatever the key and the configuration.
C22_AuthenticationGate ==
  \A i \in Indices :
    /\ UnderApi(reqs[i]) =>
         IF ConfiguredKeys = {}
         THEN Refused(reqs[i], 500, "CONFIG_ERROR")
         ELSE IF ~HasKey(reqs[i])
         THEN Refused(reqs[i], 401, "UNAUTHORIZED")
         ELSE Done(reqs[i]) =>
                /\ reqs[i].response.status # 401
                /\ reqs[i].response.body.error # [code |-> "CONFIG_ERROR"]
    /\ (reqs[i].input.method = "GET" /\ reqs[i].input.path = sHealthPath)
         => Done(reqs[i]) /\ reqs[i].response.status = 200
            /\ reqs[i].response.body.ok

\* A validate request under a token by a key that is not configured was
\* answered 401, and the types were listed for the second configured key.
C22_Witness ==
  \E i, j \in Indices :
    /\ ConfiguredKeys = {KeyOne, KeyTwo}
    /\ reqs[i].input.path = sValidatePath
    /\ reqs[i].input.apiKey = Str(UnknownKey)
    /\ reqs[i].input.idempotencyKey = Str(TokenA)
    /\ Refused(reqs[i], 401, "UNAUTHORIZED")
    /\ reqs[j].input.path = sTypesPath
    /\ reqs[j].input.apiKey = Str(KeyTwo)
    /\ Done(reqs[j])
    /\ reqs[j].response.status = 200
    /\ reqs[j].response.body.types = <<"csv.timeseries.ga4.v1">>

----------------------------------------------------------------------------
(* Error codes *)

\* The codes of the error responses
ErrorCodes ==
  {"INVALID_JSON", "MISSING_TYPE", "MISSING_CONTENT", "UNAUTHORIZED",
   "CONFIG_ERROR", "NOT_FOUND", "IDEMPOTENCY_KEY_REUSE_MISMATCH",
   "VALIDATION_FAILED", "UNSUPPORTED_TYPE", "INTERNAL_ERROR"}

\* The positions at which a handler waits for a KV operation
Waiting(r) ==
  IF variant = "list" THEN r.pc \in {"check", "list", "put"}
  ELSE r.pc \in {"check", "stored", "put", "putFingerprint"}

\* C23: every request is answered or is waiting for a KV operation that
\* will answer or fail; every answer has a status among 200, 400, 401, 404,
\* 409, 422 and 500, its ok flag is true exactly when the status is 200,
\* and an answer whose ok flag is false carries an error with one of the
\* known codes, also when a KV operation failed or the validator threw.
C23_ErrorsCarryCodes ==
  \A i \in Indices :
    IF Done(reqs[i])
    THEN /\ reqs[i].response # NoResponse
         /\ reqs[i].response.status \in {200, 400, 401, 404, 409, 422, 500}
         /\ reqs[i].response.body.ok = (reqs[i].response.status = 200)
         /\ ~reqs[i].response.body.ok =>
              /\ reqs[i].response.body.error # Undefined
              /\ reqs[i].response.body.error.code \in ErrorCodes
    ELSE Waiting(reqs[i])

\* One request was answered 500 INTERNAL_ERROR because the validator
\* threw, and another because its first read of the store failed.
C23_Witness ==
  \E i, j \in Indices :
    /\ Done(reqs[i]) /\ Validated(reqs[i]) /\ reqs[i].engine[1].threw
    /\ reqs[i].fault = "none"
    /\ reqs[i].response.status = 500
    /\ reqs[i].response.body.error.code = "INTERNAL_ERROR"
    /\ Done(reqs[j]) /\ reqs[j].fault = "check"
    /\ reqs[j].response.status = 500
    /\ reqs[j].response.body.error.code = "INTERNAL_ERROR"

----------------------------------------------------------------------------
(* The health check *)

\* The data field of a body; a body has the fields jsonResponse was given
\* and no other.
DataOf(body) == IF "data" \in DOMAIN body THEN body.data ELSE Undefined

\* C24: GET /health, with or without a key and whatever the keys
\* configured, is answered 200 with ok true and a data object whose service
\* is "rapidtools-validation" and whose version is defined.
C24_HealthData ==
  \A i \in Indices :
    (reqs[i].input.method = "GET" /\ reqs[i].input.path = sHealthPath)
      => /\ Done(reqs[i])
         /\ reqs[i].response.status = 200
         /\ reqs[i].response.body.ok
         /\ DataOf(reqs[i].response.body) # Undefined
         /\ DataOf(reqs[i].response.body).service = "rapidtools-validation"
         /\ DataOf(reqs[i].response.body).version # Undefined

----------------------------------------------------------------------------
(* Races under one token *)

\* Neither request had answered when the other arrived.
Concurrent(i, j) ==
  i # j /\ i \notin reqs[j].pred /\ j \notin reqs[i].pred

\* The fingerprints of the result records readable under the caller and
\* token of the request
StoredFingerprints(r) ==
  {kv[k].value.json.fingerprint :
     k \in {key \in LiveKeys :
              StartsWith(key, ListPrefix(ApiKeyOf(r), TokenOf(r)))}}

\* Two concurrent requests of one caller with one token and one
\* fingerprint, both answered, neither by an exception of the validator
Raced(i, j) ==
  /\ Concurrent(i, j)
  /\ SameCallerToken(reqs[i], reqs[j])
  /\ reqs[i].fingerprint = reqs[j].fingerprint
  /\ Done(reqs[i]) /\ Done(reqs[j])
  /\ reqs[i].response.status # 500 /\ reqs[j].response.status # 500

\* C25: of two concurrent requests with the same caller, token and
\* fingerprint neither is answered 409, both answers carry the same result
\* apart from the idempotency marker, and the store then holds no record
\* under the token for another fingerprint.
C25_BenignSameFingerprintRace ==
  \A i, j \in Indices :
    Raced(i, j) =>
      /\ ~Conflict(reqs[i]) /\ ~Conflict(reqs[j])
      /\ Payload(reqs[i].response) = Payload(reqs[j].response)
      /\ StoredFingerprints(reqs[i]) \subseteq {reqs[i].fingerprint}

\* Two requests of one caller with one token and different fingerprints,
\* each answered with a result marked replayed: false, the records of
\* both readable
TwoFingerprints(i, j) ==
  /\ i # j
  /\ SameCallerToken(reqs[i], reqs[j])
  /\ reqs[i].fingerprint # reqs[j].fingerprint
  /\ Fresh(reqs[i]) /\ Fresh(reqs[j])
  /\ Live(RecordKey(reqs[i])) /\ Live(RecordKey(reqs[j]))

\* checkIdempotency returned null to the request: performValidation was
\* called for it.
ObservedMiss(r) == r.performed = 1

\* C26: records of two fingerprints under one caller and token, both
\* answered replayed: false, come of a race and of nothing else: the two
\* requests were concurrent, checkIdempotency returned null to both, both
\* called performValidation once and both wrote their record.
C26_TwoFingerprintsByRace ==
  \A i, j \in Indices :
    TwoFingerprints(i, j) =>
      /\ Concurrent(i, j)
      /\ ObservedMiss(reqs[i]) /\ ObservedMiss(reqs[j])
      /\ Committed(reqs[i]) /\ Committed(reqs[j])

\* The race: two concurrent requests with different fingerprints under
\* one token, both validated with the CSV validator, both stored, both
\* answered replayed: false, two records under the token's prefix
C26_Witness ==
  \E i, j \in Indices :
    /\ TwoFingerprints(i, j)
    /\ Concurrent(i, j)
    /\ ObservedMiss(reqs[i]) /\ ObservedMiss(reqs[j])
    /\ reqs[i].validated = 1 /\ reqs[j].validated = 1
    /\ Committed(reqs[i]) /\ Committed(reqs[j])
    /\ Cardinality(StoredFingerprints(reqs[i])) = 2

\* Requests i and j raced under one token with different fingerprints and
\* left a record each; request k, of the same caller and token, arrived
\* after both had answered and made its reads while both records were
\* readable.
AfterRace(i, j, k) ==
  /\ Concurrent(i, j)
  /\ SameCallerToken(reqs[i], reqs[j])
  /\ reqs[i].fingerprint # reqs[j].fingerprint
  /\ Fresh(reqs[i]) /\ Fresh(reqs[j])
  /\ SameCallerToken(reqs[i], reqs[k])
  /\ {i, j} \subseteq reqs[k].pred
  /\ Done(reqs[k])
  /\ {RecordKey(reqs[i]), RecordKey(reqs[j])} \subseteq reqs[k].seen

\* C27, as stated: the request that follows a race which left the records
\* of two fingerprints under its token is answered 409, whichever
\* fingerprint it carries.
C27_NextRequestConflicts ==
  \A i, j, k \in Indices : AfterRace(i, j, k) => Conflict(reqs[k])

\* C27, amended: the request that follows such a race calls
\* performValidation never and writes nothing; it is answered 409 when its
\* fingerprint is neither of the two stored, and otherwise either 409 or
\* the stored response of the request that had its fingerprint, marked
\* replayed: true.
C27_NextRequestConflictsOrReplays ==
  \A i, j, k \in Indices :
    AfterRace(i, j, k) =>
      /\ reqs[k].performed = 0 /\ reqs[k].puts = <<>>
      /\ \/ Conflict(reqs[k])
         \/ \E m \in {i, j} :
              /\ reqs[k].fingerprint = reqs[m].fingerprint
              /\ Replayed(reqs[k])
              /\ Payload(reqs[k].response) = Payload(reqs[m].response)

\* A request with a third fingerprint after a race, answered 409
C27_Witness ==
  \E i, j, k \in Indices :
    /\ AfterRace(i, j, k)
    /\ reqs[k].fingerprint \notin {reqs[i].fingerprint, reqs[j].fingerprint}
    /\ Conflict(reqs[k])

----------------------------------------------------------------------------
(* A store that stops midway *)

\* The puts storeIdempotentResponse makes for one request: the response,
\* and in the stored-fingerprint build the fingerprint as well
CommitKeys(r) ==
  IF variant = "fp"
  THEN <<RecordKey(r), FingerprintKey(ApiKeyOf(r), TokenOf(r))>>
  ELSE <<RecordKey(r)>>

\* C28: a request that ended on a failed KV operation has put either all
\* the keys of its record or none of them.
C28_NoPartialCommit ==
  \A i \in Indices :
    (Done(reqs[i]) /\ reqs[i].fault # "none")
      => reqs[i].puts \in {<<>>, CommitKeys(reqs[i])}

----------------------------------------------------------------------------
(* The expiration of the records *)

\* C29, as stated: no step moves the expiration of a stored key later.
C29_ExpiryFixed ==
  [][\A k \in DOMAIN kv \cap DOMAIN kv' :
       kv'[k].expiresAt <= kv[k].expiresAt]_vars

\* The step is a put of key k by storeIdempotentResponse for request i.
Writes(i, k) ==
  /\ reqs[i].pc \in {"put", "putFingerprint"}
  /\ reqs'[i].puts = Append(reqs[i].puts, k)

\* C29, amended: a request answered with a replay or with 409 has put
\* nothing; the expiration of a stored key changes only when
\* storeIdempotentResponse puts that key again for a request that was not
\* answered from the store, and it is then 24 hours after that put.  The
\* request overlapped another under its caller and token, or the key is
\* the token's fingerprint in the stored-fingerprint build.
C29_ExpiryMovedOnlyByCommit ==
  [][/\ \A i \in 1..Len(reqs') :
          (reqs'[i].pc = "done" /\ reqs'[i].response.status = 409)
            => reqs'[i].puts = <<>>
     /\ \A i \in 1..Len(reqs') :
          (/\ reqs'[i].pc = "done"
           /\ reqs'[i].response.body.idempotency # Undefined
           /\ reqs'[i].response.body.idempotency.replayed)
            => reqs'[i].puts = <<>>
     /\ \A k \in DOMAIN kv \cap DOMAIN kv' :
          kv'[k].expiresAt # kv[k].expiresAt
            => \E i \in Indices :
                 /\ Writes(i, k)
                 /\ reqs[i].performed = 1
                 /\ kv'[k].expiresAt = now + IDEMPOTENCY_TTL_SECONDS
                 /\ \/ ~OneAtATime(reqs[i])
                    \/ /\ variant = "fp"
                       /\ k = FingerprintKey(ApiKeyOf(reqs[i]),
                                             TokenOf(reqs[i]))]_vars

\* A request answered with a replay or with 409 under a token whose record
\* an earlier request wrote twelve hours ago: the record still expires 24
\* hours after it was written.
C29_Witness ==
  \E i, j \in Indices :
    /\ i \in reqs[j].pred
    /\ SameCallerToken(reqs[i], reqs[j])
    /\ Committed(reqs[i])
    /\ Replayed(reqs[j]) \/ Conflict(reqs[j])
    /\ now = TickSeconds
    /\ Live(RecordKey(reqs[i]))
    /\ kv[RecordKey(reqs[i])].expiresAt
         = kv[RecordKey(reqs[i])].value.json.timestamp
             + IDEMPOTENCY_TTL_SECONDS
    /\ kv[RecordKey(reqs[i])].value.json.timestamp = 0

----------------------------------------------------------------------------
(* Rows with too few columns *)

\* The data rows (row 1 is the header row) with fewer cells than there are
\* required headers
ShortRows(rows) ==
  {k \in 2..Len(rows) : Len(rows[k]) < Len(requiredHeaders)}

\* The rows without the short ones
WithoutShort(rows) ==
  FilterSeq(rows, {rows[k] : k \in (1..Len(rows)) \ ShortRows(rows)})

\* The line of row k once the short rows above it are taken out
Shifted(short, k) == k - Cardinality({h \in short : h < k})

\* The findings of a result that name a row, in order
OfRows(result) ==
  FilterSeq(result.findings,
            {result.findings[n] :
               n \in {m \in 1..Len(result.findings) :
                        "row" \in DOMAIN result.findings[m].pointer}})

\* The findings about the rows with enough columns, each with the line its
\* row has once the short rows are taken out
OfFullRows(result, short) ==
  LET full == FilterSeq(OfRows(result),
                        {f \in {OfRows(result)[n] :
                                  n \in 1..Len(OfRows(result))} :
                           f.pointer.row \notin short})
  IN [n \in 1..Len(full) |->
        [full[n] EXCEPT !.pointer.row = Shifted(short, @)]]

\* The result of a content with the given rows, once the rows went through
\* the row loop, beside the result of the rows without the short ones: the
\* row count is the number of data rows, each short row has one finding,
\* the error INVALID_ROW_FORMAT, and the findings of the other rows are
\* those of the rows without the short ones, row for row.
ShortRowsSkipped(result, rows, short, without, maxRows) ==
  Lacking(rows[1]) = {} /\ Len(rows) - 1 <= maxRows =>
    /\ result.summary.rows = Len(rows) - 1
    /\ \A k \in short :
         \E n \in 1..Len(result.findings) :
           /\ result.findings[n]
                = Finding("error", "INVALID_ROW_FORMAT", [row |-> k])
           /\ \A m \in 1..Len(result.findings) :
                ("row" \in DOMAIN result.findings[m].pointer
                 /\ result.findings[m].pointer.row = k) => m = n
    /\ ~without.threw
    /\ without.result.summary.rows = Len(rows) - 1 - Cardinality(short)
    /\ OfFullRows(result, short) = OfRows(without.result)

\* C30: in a result of the validator for a content that has every required
\* header and is within the row limit, rowCount is the number of data
\* rows, every row with fewer cells than the required headers has the
\* error INVALID_ROW_FORMAT as its only finding, and the findings of the
\* other rows are, apart from the row numbers, those the validator gives
\* when the short rows are taken out of the content.
C30_ShortRowSkipped ==
  \A i \in Indices :
    Returned(reqs[i]) =>
      ShortRowsSkipped(ResultOf(reqs[i]), RowsOf(reqs[i]),
                       ShortRows(RowsOf(reqs[i])),
                       ValidateRowsOf(WithoutShort(RowsOf(reqs[i])),
                                      Given(reqs[i].input.body.options)),
                       Limit(reqs[i]))

\* The content with a short row between a row with a bad sessions cell and
\* a row that repeats its date: the short row has its one finding, and the
\* rows below it have theirs.
C30_Witness ==
  \E i \in Indices :
    /\ Returned(reqs[i])
    /\ reqs[i].input.body.content = Str(MixedRowsCsv)
    /\ ~AllowsDuplicates(reqs[i])
    /\ ResultOf(reqs[i]).summary.rows = 4
    /\ WithCode(ResultOf(reqs[i]), "INVALID_ROW_FORMAT") # {}
    /\ \E n \in WithCode(ResultOf(reqs[i]), "DUPLICATE_DATE") :
         ResultOf(reqs[i]).findings[n].pointer.row = 5

----------------------------------------------------------------------------
(* The order of the dates *)

RequiresSorted(r) ==
  ~Falsy(Prop(Given(r.input.body.options), sRequireSortedByDateAsc))

\* Among the rows of the set no row carries a date before the date of a
\* row above it.
NonDecreasing(rows, dated) ==
  \A a, b \in dated :
    a < b => ~StrLess(DateCell(rows, b).s, DateCell(rows, a).s)

\* The result of a content with the given rows, once the rows went through
\* the row loop: it has one NOT_SORTED_BY_DATE finding, an error, when the
\* option is set and the dates of the dated rows are out of order, and none
\* otherwise.
OrderChecked(result, rows, dated, maxRows, required) ==
  Lacking(rows[1]) = {} /\ Len(rows) - 1 <= maxRows =>
    /\ Cardinality(WithCode(result, "NOT_SORTED_BY_DATE"))
         = IF required /\ ~NonDecreasing(rows, dated) THEN 1 ELSE 0
    /\ \A n \in WithCode(result, "NOT_SORTED_BY_DATE") :
         result.findings[n] = Finding("error", "NOT_SORTED_BY_DATE", NoPointer)

\* C31: a result of the validator has a NOT_SORTED_BY_DATE finding, and
\* then one only, exactly when requireSortedByDateAsc is set and the dates
\* of the rows with enough columns and a valid date, taken in row order,
\* are not non-decreasing; rows with too few columns or an invalid date do
\* not count, and without the option there is no such finding.
C31_OrderOfDates ==
  \A i \in Indices :
    Returned(reqs[i]) =>
      OrderChecked(ResultOf(reqs[i]), RowsOf(reqs[i]),
                   Dated(RowsOf(reqs[i])), Limit(reqs[i]),
                   RequiresSorted(reqs[i]))

\* With the option set: descending dates are reported; a row with too few
\* columns whose date is out of order is not.  Without the option the
\* descending dates are not reported.
C31_Witness ==
  \E i, j \in Indices :
    /\ Returned(reqs[i]) /\ Returned(reqs[j])
    /\ reqs[i].input.body.content = Str(UnsortedCsv)
    /\ RequiresSorted(reqs[i])
    /\ WithCode(ResultOf(reqs[i]), "NOT_SORTED_BY_DATE") # {}
    /\ reqs[j].input.body.content = Str(SkippedRowCsv)
    /\ RequiresSorted(reqs[j])
    /\ WithCode(ResultOf(reqs[j]), "NOT_SORTED_BY_DATE") = {}
    /\ WithCode(ResultOf(reqs[j]), "INVALID_ROW_FORMAT") # {}

----------------------------------------------------------------------------
(* The order of the findings *)

\* The stage of validateGA4CSV a finding comes from: 1 for the checks before
\* the row loop (decoding, the empty content, the headers, the row limit),
\* 2 for the row loop, 3 for the check of the order of the dates
StageOf(finding) ==
  IF finding.code = "NOT_SORTED_BY_DATE" THEN 3
  ELSE IF "row" \in DOMAIN finding.pointer THEN 2
  ELSE 1

\* The findings come stage after stage, and within the row loop row after
\* row.
InDiscoveryOrder(findings) ==
  \A m, n \in 1..Len(findings) :
    m < n =>
      /\ StageOf(findings[m]) <= StageOf(findings[n])
      /\ (StageOf(findings[m]) = 2 /\ StageOf(findings[n]) = 2)
           => findings[m].pointer.row <= findings[n].pointer.row

\* C32: in every result of the validator the findings of the checks before
\* the row loop come first, then the findings of the rows in increasing row
\* order, and the NOT_SORTED_BY_DATE finding, when there is one, is the
\* last; the response carries the findings in that order.
C32_DiscoveryOrder ==
  /\ \A result \in Results :
       /\ InDiscoveryOrder(result.findings)
       /\ \A n \in WithCode(result, "NOT_SORTED_BY_DATE") :
            n = Len(result.findings)
  /\ \A i \in Indices :
       (Done(reqs[i]) /\ Returned(reqs[i]))
         => reqs[i].response.body.findings.items = ResultOf(reqs[i]).findings

\* One result with a header warning, then a row error, then the error of
\* the order; another with errors of three rows after the header warning.
C32_Witness ==
  \E a, b \in Results :
    /\ Len(a.findings) = 3
    /\ a.findings[1].code = "MISSING_OPTIONAL_HEADER"
    /\ a.findings[2].code = "INVALID_USERS_VALUE"
    /\ a.findings[3].code = "NOT_SORTED_BY_DATE"
    /\ Len(b.findings) >= 4
    /\ b.findings[1].code = "MISSING_OPTIONAL_HEADER"
    /\ Cardinality({b.findings[n].pointer.row :
                      n \in {m \in 1..Len(b.findings) :
                               StageOf(b.findings[m]) = 2}}) >= 3

----------------------------------------------------------------------------
(* Content that does not decode *)

\* The content starts with neither "text:" nor "base64:", or starts with
\* "base64:" and what follows is not base64.
Undecodable(content) ==
  /\ ~StartsWith(content, sText)
  /\ \/ ~StartsWith(content, sBase64)
     \/ atob(SubSeq(content, 8, Len(content))).threw

\* The result has one finding, the error INVALID_CONTENT_ENCODING, is not
\* valid, counts no row and reports no header and no date range.
StoppedAtDecoding(result) ==
  /\ result.findings
       = <<Finding("error", "INVALID_CONTENT_ENCODING", NoPointer)>>
  /\ result.summary = [valid |-> FALSE, issues |-> 1, warnings |-> 0,
                       rows |-> 0]
  /\ result.normalized = [detectedHeaders |-> <<>>, dateRange |-> Undefined]

\* C33: when the content starts with neither "text:" nor "base64:", or its
\* base64 data does not decode, the validator returns a result that is not
\* valid, with the error INVALID_CONTENT_ENCODING as its only finding, a
\* row count of 0 and nothing of the later stages, and the response is 422
\* VALIDATION_FAILED; for content that decodes there is no such finding.
C33_UndecodableContent ==
  \A i \in Indices :
    Validated(reqs[i]) =>
      IF Undecodable(reqs[i].input.body.content.s)
      THEN /\ Len(reqs[i].engine) = 1 /\ ~reqs[i].engine[1].threw
           /\ StoppedAtDecoding(ResultOf(reqs[i]))
           /\ Done(reqs[i]) =>
                /\ reqs[i].response.status = 422
                /\ reqs[i].response.body.error
                     = [code |-> "VALIDATION_FAILED"]
      ELSE ~reqs[i].engine[1].threw
             => WithCode(ResultOf(reqs[i]), "INVALID_CONTENT_ENCODING") = {}

\* A well-formed CSV sent without a prefix and a "base64:" content that is
\* no base64, both answered with the one finding
C33_Witness ==
  \E i, j \in Indices :
    /\ reqs[i].input.body.content = Str(NoPrefixCsv)
    /\ reqs[j].input.body.content = Str(BadBase64Csv)
    /\ Validated(reqs[i]) /\ Validated(reqs[j])
    /\ StoppedAtDecoding(ResultOf(reqs[i]))
    /\ StoppedAtDecoding(ResultOf(reqs[j]))
    /\ reqs[i].response.status = 422 /\ reqs[j].response.status = 422

----------------------------------------------------------------------------
(* Empty content *)

\* The content decodes to nothing but white space.
DecodesEmpty(content) ==
  /\ ~decodeContent(content).threw
  /\ Trim(decodeContent(content).text) = <<>>

\* C34: for a content that decodes to the empty text, or to white space
\* only, the validator returns a result that is not valid, with a row count
\* of 0 and the error EMPTY_CSV as its only finding.
C34_EmptyContent ==
  \A i \in Indices :
    (Validated(reqs[i]) /\ DecodesEmpty(reqs[i].input.body.content.s))
      => /\ ~reqs[i].engine[1].threw
         /\ ~ResultOf(reqs[i]).summary.valid
         /\ ResultOf(reqs[i]).summary.rows = 0
         /\ ResultOf(reqs[i]).findings
              = <<Finding("error", "EMPTY_CSV", NoPointer)>>

----------------------------------------------------------------------------
(* Absent options and context *)

\* Two request bodies that are the same once an absent options or context
\* is written as the empty object
SameButAbsent(a, b) ==
  /\ a.type = b.type
  /\ a.content = b.content
  /\ Given(a.options) = Given(b.options)
  /\ Given(a.context) = Given(b.context)

\* C35: two requests that differ only in that one leaves options or context
\* out where the other sends {} have the same fingerprint; when one caller
\* sends them under one token, the second after the first has answered and
\* while its record is unexpired, the second is answered with the stored
\* response marked replayed = true, not with the 409.
C35_AbsentIsEmpty ==
  \A i, j \in Indices :
    (/\ Keyed(reqs[i]) /\ Keyed(reqs[j])
     /\ SameButAbsent(reqs[i].input.body, reqs[j].input.body))
      => /\ reqs[i].fingerprint = reqs[j].fingerprint
         /\ Twice(i, j)
              => /\ Replayed(reqs[j]) /\ ~Conflict(reqs[j])
                 /\ Payload(reqs[j].response) = Payload(reqs[i].response)

\* A request without options and context, then the same request with {}
\* for both, replayed
C35_Witness ==
  \E i, j \in Indices :
    /\ Twice(i, j)
    /\ reqs[i].input.body.options = Undefined
    /\ reqs[i].input.body.context = Undefined
    /\ reqs[j].input.body.options = Obj(<<>>)
    /\ reqs[j].input.body.context = Obj(<<>>)
    /\ reqs[i].input.body.content = reqs[j].input.body.content
    /\ reqs[i].fingerprint = reqs[j].fingerprint
    /\ Replayed(reqs[j])

----------------------------------------------------------------------------
(* When a request is answered 409 *)

\* At one of its reads the store held a key that request i had put, i being
\* a request of the same caller under the same token with another
\* fingerprint.
MetRecordOf(i, j) ==
  /\ i # j
  /\ SameCallerToken(reqs[i], reqs[j])
  /\ reqs[i].fingerprint # reqs[j].fingerprint
  /\ \E n \in 1..Len(reqs[i].puts) : reqs[i].puts[n] \in reqs[j].met

\* C36: a request is answered 409 only when, at a read of its check, the
\* store held an unexpired record written by the same caller under the same
\* token with a fingerprint other than the request's.
C36_ConflictSound ==
  \A j \in Indices :
    Conflict(reqs[j]) => \E i \in Indices : MetRecordOf(i, j)

----------------------------------------------------------------------------
(* The two keys of the stored-fingerprint build *)

\* C37: in the stored-fingerprint build, whenever the fingerprint key of a
\* caller and token is readable, holding the fingerprint f, the result key
\* of that caller, token and f is readable as well.
C37_FingerprintHasResult ==
  \A i \in Indices :
    (/\ variant = "fp"
     /\ Keyed(reqs[i])
     /\ Live(FingerprintKey(ApiKeyOf(reqs[i]), TokenOf(reqs[i]))))
      => Live(ResultKey(ApiKeyOf(reqs[i]), TokenOf(reqs[i]),
                        kv[FingerprintKey(ApiKeyOf(reqs[i]),
                                          TokenOf(reqs[i]))].value.text))

====
